---- MODULE Spec2Model ----
(***************************************************************************)
(* Function-body semantic analysis of vyper/semantics/analysis/local.py:   *)
(* validate_functions drives one FunctionNodeVisitor per FunctionDef of a  *)
(* module; each statement of a body is visited in order, then the          *)
(* terminator scan and the keyword defaults.  The AST, the namespace and   *)
(* the type queries are collaborators of local.py and appear here in the   *)
(* reduced form the analysis consumes.                                     *)
(***************************************************************************)
EXTENDS Integers, Sequences, FiniteSets, TLC

VARIABLES
    module,     \* the vy_ast.Module under analysis (input, never changed)
    pass,       \* 1 for the first run of validate_functions, 2 for a re-run
    fi,         \* index of the FunctionDef the driver loop is at
    pc,         \* "idle" (driver loop), "body" (inside analyze), "done"
    tasks,      \* work still to do inside analyze(), head first
    scopes,     \* namespace: stack of frames
    nextFrame,  \* identity given to the next pushed frame
    exc,        \* exception in flight (NoErr when none)
    err_list,   \* ExceptionList of validate_functions
    ann,        \* node._metadata["type"]: set of [fn, p, typ]
    writes,     \* every annotation write of this pass, in order
    called,     \* called_functions of every function descriptor
    attempts,   \* times analyze() was entered, per function, this pass
    outcome,    \* how validate_functions ended: "none", "returned", "raised", "crashed"
    first       \* what the first pass left: [outcome, errs, ann, called]

vars == <<module, pass, fi, pc, tasks, scopes, nextFrame, exc, err_list, ann,
          writes, called, attempts, outcome, first>>

(***************************************************************************)
(* AST nodes.  A node is [k: kind, s: identifier/attribute/annotation,     *)
(* n: literal value, c: children].  A node is addressed by its path (child *)
(* indices) below the FunctionDef that holds it.  Statement lists are      *)
(* "Block" nodes.                                                          *)
(***************************************************************************)
Node(k, s, n, c) == [k |-> k, s |-> s, n |-> n, c |-> c]

IntNode(v) == Node("Int", "", v, <<>>)
BoolNode(v) == Node("Bool", "", v, <<>>)
NameNode(id) == Node("Name", id, 0, <<>>)
AttributeNode(value, attr) == Node("Attribute", attr, 0, <<value>>)
SubscriptNode(value, idx) ==
    Node("Subscript", "", 0, <<value, Node("Index", "", 0, <<idx>>)>>)
CallNode(func, args) == Node("Call", "", 0, <<func>> \o args)
KeywordNode(arg, value) == Node("keyword", arg, 0, <<value>>)
StrNode(text) == Node("Str", text, 0, <<>>)
\* a Dict of one key; its child is the value
DictNode(key, value) == Node("Dict", key, 0, <<value>>)

Block(stmts) == Node("Block", "", 0, stmts)
PassStmt == Node("Pass", "", 0, <<>>)
BreakStmt == Node("Break", "", 0, <<>>)
ReturnStmt(vals) == Node("Return", "", 0, vals)
RaiseStmt == Node("Raise", "", 0, <<>>)
AssignStmt(target, value) == Node("Assign", "", 0, <<target, value>>)
AugAssignStmt(target, value) == Node("AugAssign", "", 0, <<target, value>>)
AnnAssignStmt(target, typ, vals) == Node("AnnAssign", typ, 0, <<target>> \o vals)
ExprStmt(value) == Node("Expr", "", 0, <<value>>)
IfStmt(test, body, orelse) == Node("If", "", 0, <<test, Block(body), Block(orelse)>>)
ForStmt(target, typ, iter, body) == Node("For", typ, 0, <<target, iter, Block(body)>>)

\* FunctionDef: children are the body block, then the keyword defaults.
FunctionDefNode(name, body, defaults) ==
    Node("FunctionDef", name, 0, <<Block(body)>> \o defaults)

\* The FunctionDef together with its descriptor, _metadata["func_type"].
FunctionDef(name, internal, mutability, args, ret, body, kwargs) ==
    [name |-> name, internal |-> internal, mutability |-> mutability,
     args |-> args, ret |-> ret,
     kwargs |-> [i \in 1..Len(kwargs) |-> [name |-> kwargs[i].name, typ |-> kwargs[i].typ]],
     node |-> FunctionDefNode(name, body, [i \in 1..Len(kwargs) |-> kwargs[i].default])]

RECURSIVE NodeAt(_, _)
NodeAt(node, path) ==
    IF path = <<>> THEN node ELSE NodeAt(node.c[Head(path)], Tail(path))

\* node.get_ancestor(): the parent.
Parent(path) == SubSeq(path, 1, Len(path) - 1)

IsPrefix(p, q) == Len(p) <= Len(q) /\ SubSeq(q, 1, Len(p)) = p

\* get_descendants(include_self=True): the paths of the node and of the
\* nodes below it; source order is that of the paths, a node before its
\* children and a child before the next
RECURSIVE PathSet(_)
PathSet(node) ==
    {<<>>} \cup UNION {{<<i>> \o q : q \in PathSet(node.c[i])} : i \in 1..Len(node.c)}
Precedes(q, p) ==
    \/ Len(q) < Len(p) /\ SubSeq(p, 1, Len(q)) = q
    \/ \E i \in 1..Len(q) :
            i <= Len(p) /\ q[i] < p[i] /\ SubSeq(q, 1, i - 1) = SubSeq(p, 1, i - 1)
InSourceOrder(paths) ==
    [i \in 1..Cardinality(paths) |->
        CHOOSE p \in paths : Cardinality({q \in paths : Precedes(q, p)}) = i - 1]

\* vy_ast.compare_nodes: same kind and same fields, recursively.
RECURSIVE compare_nodes(_, _)
compare_nodes(left, right) ==
    /\ left.k = right.k
    /\ left.s = right.s
    /\ left.n = right.n
    /\ Len(left.c) = Len(right.c)
    /\ \A i \in 1..Len(left.c) : compare_nodes(left.c[i], right.c[i])

\* node.is_terminus
is_terminus(node) == node.k \in {"Return", "Raise"}

(***************************************************************************)
(* Exceptions.  site is the line of local.py that raises (0: raised by a   *)
(* collaborator), at the node handed to the exception, info the names the  *)
(* message quotes.                                                         *)
(***************************************************************************)
Err(kind, site, at, info) == [kind |-> kind, site |-> site, at |-> at, info |-> info]
NoErr == Err("none", 0, <<>>, <<>>)

\* Builtin exceptions are not VyperException: `except VyperException` lets them through.
IsVyperException(e) == e.kind \notin {"none", "IndexError", "KeyError", "AssertionError"}

(***************************************************************************)
(* Types, the namespace and the type queries local.py imports.             *)
(***************************************************************************)
T(t) == [t |-> t, f |-> ""]
ContractFunctionT(name) == [t |-> "fn", f |-> name]
MemberFunctionT(base, attr) == [t |-> "member:" \o base, f |-> attr]
BuiltinT(name) == [t |-> "builtin", f |-> name]
\* TYPE_T(StructT): what the name of a struct resolves to
StructTypeT(name) == [t |-> "struct_t", f |-> name]
ErrorT == T("error")

\* StateMutability, ordered PURE < VIEW < NONPAYABLE < PAYABLE.
StateMutability == [pure |-> 0, view |-> 1, nonpayable |-> 2, payable |-> 3]
PURE == "pure"
VIEW == "view"
NONPAYABLE == "nonpayable"
PAYABLE == "payable"

\* CONSTANT_ENVIRONMENT_VARS and MUTABLE_ENVIRONMENT_VARS
CONSTANT_ENVIRONMENT_VARS == {"block", "chain", "msg", "tx"}
MUTABLE_ENVIRONMENT_VARS == {"self"}

\* Members of the environment variables the inputs read.
EnvMembers ==
    [msg |-> [sender |-> "address", value |-> "uint256", data |-> "Bytes"],
     block |-> [timestamp |-> "uint256"],
     tx |-> [origin |-> "address"],
     chain |-> [id |-> "uint256"]]

\* The storage variables every input module declares.
\* DynArray holds uint256, DynArray2 holds DynArray, DynArrayS holds the
\* struct Rec, whose one member `items` is a DynArray.
StorageVars ==
    [arr |-> "DynArray", brr |-> "DynArray", nested |-> "DynArray2",
     recs |-> "DynArrayS", n |-> "uint256"]

ValueType(t) ==
    CASE t = "DynArray2" -> "DynArray"
      [] t = "DynArrayS" -> "Rec"
      [] t = "DynArray" -> "uint256"
      [] OTHER -> "error"
IsArrayT(t) == t \in {"DynArray", "DynArray2", "DynArrayS"}
StructMembers == [Rec |-> [items |-> "DynArray"]]
\* typedef.members, in declaration order
MemberOrder == [Rec |-> <<"items">>]
KnownTypes ==
    {"uint256", "int256", "bool", "address", "DynArray", "DynArray2", "DynArrayS",
     "Rec", "String", "Bytes"}
MemberFns == {"append", "pop"}
Builtins == {"len"}

\* VarInfo(typ, location, modifiability)
VarInfo(name, typ, location, modifiability) ==
    [name |-> name, typ |-> typ, location |-> location, modifiability |-> modifiability]
NoVar == VarInfo("", "error", "none", "none")

Frame(id, vs) == [id |-> id, vars |-> vs]

\* namespace[name]: the innermost frame that binds the name.
RECURSIVE Lookup(_, _)
Lookup(sc, id) ==
    IF sc = <<>>
    THEN NoVar
    ELSE LET hits == {v \in sc[Len(sc)].vars : v.name = id}
         IN  IF hits # {} THEN CHOOSE v \in hits : TRUE
             ELSE Lookup(SubSeq(sc, 1, Len(sc) - 1), id)

\* namespace[name] = VarInfo(...): a name is unique within its frame.
Collides(sc, id) == \E v \in sc[Len(sc)].vars : v.name = id
Bind(sc, v) == [sc EXCEPT ![Len(sc)].vars = @ \cup {v}]

\* namespace.enter_scope() and the pop at the end of the `with` block.
PushFrame(sc, id) == Append(sc, Frame(id, {}))
PopFrames(sc, k) == SubSeq(sc, 1, Len(sc) - k)

FnIndex(name) == {i \in 1..Len(module.fns) : module.fns[i].name = name}
HasFn(name) == FnIndex(name) # {}
FnOf(name) == module.fns[CHOOSE i \in FnIndex(name) : TRUE]

\* get_exact_type_from_node
RECURSIVE TypeOf(_, _), PossibleTypes(_, _)
TypeOf(node, sc) ==
    CASE node.k = "Int" -> IF node.n >= 0 THEN T("uint256") ELSE T("int256")
      [] node.k = "Bool" -> T("bool")
      [] node.k = "Str" -> T("String")
      [] node.k = "Name" ->
            IF node.s = "self" THEN T("self")
            ELSE IF node.s \in DOMAIN EnvMembers THEN T("env:" \o node.s)
            ELSE IF node.s \in Builtins THEN BuiltinT(node.s)
            ELSE IF node.s \in DOMAIN StructMembers THEN StructTypeT(node.s)
            ELSE T(Lookup(sc, node.s).typ)
      [] node.k = "Attribute" ->
            LET b == TypeOf(node.c[1], sc)
            IN  CASE b.t = "self" ->
                        IF node.s \in DOMAIN StorageVars THEN T(StorageVars[node.s])
                        ELSE IF HasFn(node.s) THEN ContractFunctionT(node.s)
                        ELSE ErrorT
                  [] node.c[1].k = "Name" /\ node.c[1].s \in DOMAIN EnvMembers ->
                        IF node.s \in DOMAIN EnvMembers[node.c[1].s]
                        THEN T(EnvMembers[node.c[1].s][node.s])
                        ELSE ErrorT
                  [] IsArrayT(b.t) /\ node.s \in MemberFns -> MemberFunctionT(b.t, node.s)
                  [] b.t \in DOMAIN StructMembers ->
                        IF node.s \in DOMAIN StructMembers[b.t]
                        THEN T(StructMembers[b.t][node.s])
                        ELSE ErrorT
                  [] OTHER -> ErrorT
      [] node.k = "Index" -> TypeOf(node.c[1], sc)
      [] node.k = "Subscript" ->
            LET b == TypeOf(node.c[1], sc)
            IN  IF IsArrayT(b.t) /\ T("uint256") \in PossibleTypes(node.c[2].c[1], sc)
                THEN T(ValueType(b.t)) ELSE ErrorT
      [] node.k = "Call" ->
            LET f == TypeOf(node.c[1], sc)
                args == SubSeq(node.c, 2, Len(node.c))
            IN  CASE f.t = "fn" ->
                        IF /\ Len(args) = Len(FnOf(f.f).args)
                           /\ \A i \in 1..Len(args) : T(FnOf(f.f).args[i].typ) \in PossibleTypes(args[i], sc)
                        THEN T(FnOf(f.f).ret) ELSE ErrorT
                  [] f = MemberFunctionT("DynArray", "pop") /\ args = <<>> -> T("uint256")
                  [] f = MemberFunctionT("DynArray2", "pop") /\ args = <<>> -> T("DynArray")
                  [] f = MemberFunctionT("DynArray", "append") /\ Len(args) = 1 ->
                        IF T("uint256") \in PossibleTypes(args[1], sc) THEN T("none") ELSE ErrorT
                  [] f.t = "struct_t" ->
                        IF /\ Len(args) = 1 /\ args[1].k = "Dict"
                           /\ <<args[1].s>> = MemberOrder[f.f]
                           /\ T(StructMembers[f.f][args[1].s]) \in PossibleTypes(args[1].c[1], sc)
                        THEN T(f.f) ELSE ErrorT
                  [] f = BuiltinT("len") /\ Len(args) = 1 ->
                        IF TypeOf(args[1], sc).t \in {"DynArray", "DynArray2", "Bytes", "String"}
                        THEN T("uint256") ELSE ErrorT
                  [] OTHER -> ErrorT
      [] OTHER -> ErrorT

\* get_possible_types_from_node: an integer literal fits every integer type
\* that holds its value, and self is also an address.
PossibleTypes(node, sc) ==
    IF node.k = "Int"
    THEN {T("int256")} \cup (IF node.n >= 0 THEN {T("uint256")} ELSE {})
    ELSE IF node = NameNode("self")
    THEN {T("self"), T("address")}
    ELSE {TypeOf(node, sc)} \ {ErrorT}

\* validate_expected_type(node, typ): None when the node can have the type.
validate_expected_type(node, typ, sc) == typ \in PossibleTypes(node, sc)

\* get_expr_info(node): type, location and modifiability of an assignable.
RECURSIVE get_expr_info(_, _)
get_expr_info(node, sc) ==
    CASE node.k = "Name" -> Lookup(sc, node.s)
      [] node.k = "Attribute" /\ node.c[1] = NameNode("self") /\ node.s \in DOMAIN StorageVars ->
            VarInfo(node.s, StorageVars[node.s], "storage", "modifiable")
      [] node.k = "Attribute" /\ TypeOf(node.c[1], sc).t \in DOMAIN StructMembers ->
            LET b == get_expr_info(node.c[1], sc)
            IN  IF TypeOf(node, sc) = ErrorT THEN NoVar
                ELSE VarInfo(b.name, TypeOf(node, sc).t, b.location, b.modifiability)
      [] node.k = "Subscript" ->
            LET b == get_expr_info(node.c[1], sc)
            IN  IF TypeOf(node, sc) = ErrorT THEN NoVar
                ELSE VarInfo(b.name, ValueType(b.typ), b.location, b.modifiability)
      [] OTHER -> NoVar

\* ExprInfo.validate_modification(node, mutability): the exception it raises.
validate_modification(info, mutability) ==
    IF StateMutability[mutability] <= StateMutability[VIEW] /\ info.location = "storage"
    THEN "StateAccessViolation"
    ELSE IF info.location = "calldata" THEN "ImmutableViolation"
    ELSE IF info.modifiability \in {"runtime_constant", "constant"} THEN "ImmutableViolation"
    ELSE "none"

IsMemberT(ty) == ty.t \in {"member:DynArray", "member:DynArray2"}

(***************************************************************************)
(* find_terminating_node (lines 71-95).  The result is [raised, at, ret]:  *)
(* raised with the unreachable node, or ret = <<terminus>> / <<>> (None).  *)
(***************************************************************************)
Terminated(ret) == [raised |-> FALSE, at |-> <<>>, ret |-> ret]
Unreachable(p) == [raised |-> TRUE, at |-> p, ret |-> <<>>]

\* mutant of line 75: statements after a terminus go unnoticed
AfterTerminus_Never(ret) == FALSE

\* line 75: a terminus was already found in this list
AfterTerminus(ret) == ret # <<>>

\* mutant of line 88: the else-arm alone makes the conditional a terminus
BothTerminate_ElseOnly(body_terminates, else_terminates) == else_terminates # <<>>

\* line 88: both arms of the conditional terminate
BothTerminate(body_terminates, else_terminates) ==
    body_terminates # <<>> /\ else_terminates # <<>>

\* mutant of lines 91-93: a loop whose body terminates is a terminus
AfterFor_BodyTerminates(ret, body_terminates) ==
    IF body_terminates # <<>> THEN body_terminates ELSE ret

\* lines 91-93: what the scan of a loop body returns is dropped
AfterFor(ret, body_terminates) == ret

\* lines 74-95, the loop from the i-th node of the list at path bp on
RECURSIVE ftn_loop(_, _, _, _)
ftn_loop(root, bp, i, ret) ==
    LET node_list == NodeAt(root, bp).c
    IN  IF i > Len(node_list)
        THEN Terminated(ret)
        ELSE LET node == node_list[i]
                 p == bp \o <<i>>
                 ret1 == IF is_terminus(node) THEN <<p>> ELSE ret
             IN  IF AfterTerminus(ret)
                 THEN Unreachable(p)
                 ELSE IF node.k = "If"
                 THEN LET body == ftn_loop(root, p \o <<2>>, 1, <<>>)
                          orelse == ftn_loop(root, p \o <<3>>, 1, <<>>)
                      IN  IF body.raised THEN body
                          ELSE IF orelse.raised THEN orelse
                          ELSE ftn_loop(root, bp, i + 1,
                                        IF BothTerminate(body.ret, orelse.ret)
                                        THEN orelse.ret ELSE ret1)
                 ELSE IF node.k = "For"
                 THEN LET body == ftn_loop(root, p \o <<3>>, 1, <<>>)
                      IN  IF body.raised THEN body
                          ELSE ftn_loop(root, bp, i + 1, AfterFor(ret1, body.ret))
                 ELSE ftn_loop(root, bp, i + 1, ret1)

find_terminating_node(root, bp) == ftn_loop(root, bp, 1, <<>>)

(***************************************************************************)
(* _check_iterator_modification (lines 98-125): the path, below the search *)
(* root, of the first node similar to target_node that is written, as      *)
(* <<path>>, or <<>> for None.                                             *)
(***************************************************************************)
\* node.get_ancestor(kinds): the nearest proper ancestor of one of the kinds
RECURSIVE get_ancestor(_, _, _)
get_ancestor(root, p, kinds) ==
    IF p = <<>>
    THEN <<>>
    ELSE IF NodeAt(root, Parent(p)).k \in kinds
    THEN <<Parent(p)>>
    ELSE get_ancestor(root, Parent(p), kinds)

\* line 112: the node lies in the target of its assignment statement
InAssignTarget(root, p) ==
    LET assign_node == get_ancestor(root, p, {"Assign", "AugAssign"})
    IN  assign_node # <<>> /\ IsPrefix(assign_node[1] \o <<1>>, p)

\* lines 118-122: the node lies in the receiver of append/pop/extend
InMutatingReceiver(root, p) ==
    LET attr_node == get_ancestor(root, p, {"Attribute"})
    IN  /\ attr_node # <<>>
        /\ IsPrefix(attr_node[1] \o <<1>>, p)
        /\ NodeAt(root, attr_node[1]).s \in {"append", "pop", "extend"}

\* lines 101-105
similar_nodes(target_node, search_node) ==
    InSourceOrder({p \in PathSet(search_node) \ {<<>>} :
                    /\ NodeAt(search_node, p).k = target_node.k
                    /\ compare_nodes(target_node, NodeAt(search_node, p))})

_check_iterator_modification(target_node, search_node) ==
    LET hits == SelectSeq(similar_nodes(target_node, search_node),
                          LAMBDA p : \/ InAssignTarget(search_node, p)
                                     \/ InMutatingReceiver(search_node, p))
    IN  IF hits = <<>> THEN <<>> ELSE <<Head(hits)>>

(***************************************************************************)
(* _validate_range_call (lines 719-748): the exception it raises, or NoErr.*)
(* p is the path of the Call node; its children are func, the positional   *)
(* arguments, then the keywords.                                           *)
(***************************************************************************)
\* The compile-time constants of the module and the values they fold to.
FoldedConstants == [NEG |-> -1, ZERO |-> 0, TWO |-> 2]

has_folded_value(node) == node.k = "Name" /\ node.s \in DOMAIN FoldedConstants
get_folded_value(node) == IntNode(FoldedConstants[node.s])
Folded(node) == IF has_folded_value(node) THEN get_folded_value(node) ELSE node

\* isinstance(node, vy_ast.Num)
IsNum(node) == node.k = "Int"

PositionalArgs(call) ==
    SelectSeq(SubSeq(call.c, 2, Len(call.c)), LAMBDA a : a.k # "keyword")
Keywords(call) ==
    SelectSeq(SubSeq(call.c, 2, Len(call.c)), LAMBDA a : a.k = "keyword")
\* path of the i-th positional argument / keyword value below the call
ArgPath(p, i) == p \o <<1 + i>>
KeywordPath(call, p, i) == p \o <<1 + Len(PositionalArgs(call)) + i, 1>>

\* mutant of line 747: `<` for `<=`, an empty range passes
EndNotAfterStart_Strict(start, end) == end.n < start.n

\* line 747
EndNotAfterStart(start, end) == end.n <= start.n
\* line 737
BoundTooSmall(bound) == bound.n <= 0

_validate_range_call(node, p) ==
    LET args == PositionalArgs(node)
        kws == Keywords(node)
    IN  \* line 726: validate_call_args(node, (1, 2), kwargs=["bound"])
        IF \/ Len(args) \notin {1, 2}
           \/ \E i \in 1..Len(kws) : kws[i].s # "bound"
           \/ Len(kws) > 1
        THEN Err("ArgumentException", 726, p, <<>>)
        ELSE LET start == Folded(IF Len(args) = 1 THEN IntNode(0) ELSE args[1])
                 end == Folded(IF Len(args) = 1 THEN args[1] ELSE args[2])
                 endp == ArgPath(p, Len(args))
             IN  IF kws # <<>>
                 THEN LET bound == Folded(kws[1].c[1])
                          bp == KeywordPath(node, p, 1)
                      IN  IF ~IsNum(bound) THEN Err("StateAccessViolation", 736, bp, <<>>)
                          ELSE IF BoundTooSmall(bound) THEN Err("StructureException", 738, bp, <<>>)
                          ELSE IF IsNum(start) /\ IsNum(end)
                          THEN Err("StructureException", 741, bp, <<>>)
                          ELSE NoErr
                 ELSE IF ~IsNum(start)
                 THEN Err("StateAccessViolation", 746, ArgPath(p, 1), <<>>)
                 ELSE IF ~IsNum(end)
                 THEN Err("StateAccessViolation", 746, endp, <<>>)
                 ELSE IF EndNotAfterStart(start, end)
                 THEN Err("StructureException", 748, endp, <<>>)
                 ELSE NoErr

(***************************************************************************)
(* ExprVisitor (lines 499-716).  A visit yields [err, writes, called]: the *)
(* exception (NoErr when none), the annotations written up to there, in    *)
(* order, and the internal functions added to called_functions.            *)
(***************************************************************************)
Res(err, w, c) == [err |-> err, writes |-> w, called |-> c]
Done == Res(NoErr, <<>>, {})
Raise(e) == Res(e, <<>>, {})
Then(a, b) ==
    IF a.err # NoErr THEN a
    ELSE [err |-> b.err, writes |-> a.writes \o b.writes, called |-> a.called \cup b.called]
Check(ok, e) == IF ok THEN Done ELSE Raise(e)
Write(p, typ) == Res(NoErr, <<[p |-> p, typ |-> typ]>>, {})

\* _validate_msg_data_attribute (lines 144-157)
_validate_msg_data_attribute(root, p) ==
    LET node == NodeAt(root, p)
        parent == NodeAt(root, Parent(p))
        builtin == parent.k = "Call" /\ parent.c[1].k = "Name"
    IN  IF node.c[1] = NameNode("msg") /\ node.s = "data"
        THEN IF ~(builtin /\ parent.c[1].s \in {"slice", "len", "raw_call"})
             THEN Raise(Err("StructureException", 149, p, <<>>))
             ELSE IF parent.c[1].s = "slice" /\ ~(Len(parent.c) = 4 /\ parent.c[4].k = "Int")
             THEN Raise(Err("StructureException", 155, Parent(p), <<>>))
             ELSE Done
        ELSE Done

\* _validate_msg_value_access (lines 160-162)
_validate_msg_value_access(root, p) ==
    LET node == NodeAt(root, p)
    IN  Check(~(node.c[1].k = "Name" /\ node.s = "value" /\ node.c[1].s = "msg"),
              Err("NonPayableViolation", 162, p, <<>>))

\* mutant of line 168: any contract function passes
IsPureFunctionT_AnyFunction(typ) == typ.t = "fn"

\* line 168: the attribute is a pure contract function
IsPureFunctionT(typ) == typ.t = "fn" /\ FnOf(typ.f).mutability = PURE

\* _validate_pure_access (lines 165-173)
_validate_pure_access(root, p, typ) ==
    LET node == NodeAt(root, p)
        env_vars == CONSTANT_ENVIRONMENT_VARS \cup MUTABLE_ENVIRONMENT_VARS
    IN  IF node.c[1].k = "Name" /\ node.c[1].s \in env_vars
        THEN Check(IsPureFunctionT(typ), Err("StateAccessViolation", 171, p, <<>>))
        ELSE Done

\* _validate_self_reference (lines 176-179)
_validate_self_reference(root, p) ==
    Check(~(NodeAt(root, p).s = "self" /\ NodeAt(root, Parent(p)).k # "Attribute"),
          Err("StateAccessViolation", 179, p, <<>>))

\* _validate_address_code (lines 129-141)
_validate_address_code(root, p, value_type) ==
    LET node == NodeAt(root, p)
        parent == NodeAt(root, Parent(p))
    IN  IF value_type = T("address") /\ node.s = "code"
        THEN Check(/\ parent.k = "Call"
                   /\ parent.c[1] = NameNode("slice")
                   /\ Len(parent.c) = 4 /\ parent.c[4].k = "Int",
                   Err("StructureException", 139, p, <<>>))
        ELSE Done

\* mutant of line 570: every contract function called is recorded
RecordsCall_Any(func, call_type) == TRUE

\* line 570: the callee is recorded in called_functions
RecordsCall(func, call_type) == FnOf(call_type.f).internal

\* argument types a call binds its positional arguments to
ArgumentTypes(node, call_type, sc) ==
    IF call_type.t = "fn"
    THEN [i \in 1..Len(FnOf(call_type.f).args) |-> T(FnOf(call_type.f).args[i].typ)]
    ELSE IF call_type.f = "append" THEN <<T("uint256")>>
    ELSE IF call_type.t = "builtin"
    THEN [i \in 1..Len(PositionalArgs(node)) |-> TypeOf(PositionalArgs(node)[i], sc)]
    ELSE <<>>

RECURSIVE visit(_, _, _, _, _)
RECURSIVE visit_args(_, _, _, _, _, _)
RECURSIVE visit_Call_args(_, _, _, _, _, _)
RECURSIVE visit_Call_typed(_, _, _, _, _)
RECURSIVE visit_struct_values(_, _, _, _, _, _)
RECURSIVE visit_Attribute_typed(_, _, _, _, _, _)
RECURSIVE visit_Subscript_typed(_, _, _, _, _, _, _)

\* lines 572-573, 592-593, 598-599: for arg, typ in zip(node.args, types)
visit_args(func, root, p, types, i, sc) ==
    IF i > Len(types) \/ i > Len(PositionalArgs(NodeAt(root, p)))
    THEN Done
    ELSE Then(visit(func, root, ArgPath(p, i), types[i], sc),
              visit_args(func, root, p, types, i + 1, sc))

\* visit_Attribute (lines 524-541)
\* lines 525-541, value_type being the type of node.value
visit_Attribute_typed(func, root, p, typ, value_type, sc) ==
    Then(Then(Then(Then(Then(
         _validate_msg_data_attribute(root, p),
         IF func.mutability # PAYABLE THEN _validate_msg_value_access(root, p) ELSE Done),
         IF func.mutability = PURE THEN _validate_pure_access(root, p, typ) ELSE Done),
         Check(value_type # ErrorT, Err("InvalidReference", 538, p \o <<1>>, <<>>))),
         _validate_address_code(root, p, value_type)),
         visit(func, root, p \o <<1>>, value_type, sc))

visit_Attribute(func, root, p, typ, sc) ==
    visit_Attribute_typed(func, root, p, typ, TypeOf(NodeAt(root, p).c[1], sc), sc)

\* visit_Call (lines 561-602)
\* lines 568-602: the branch taken for call_type, types being the types the
\* positional arguments are visited with
visit_Call_args(func, root, p, call_type, types, sc) ==
    Then(IF call_type.t = "fn"
         THEN Res(NoErr, <<>>, IF RecordsCall(func, call_type) THEN {call_type.f} ELSE {})
         ELSE IF IsMemberT(call_type)
         THEN Check(Len(PositionalArgs(NodeAt(root, p))) = Len(types),
                    Err("AssertionError", 591, p, <<>>))
         ELSE Done,
         visit_args(func, root, p, types, 1, sc))

\* lines 584-589: zip(node.args[0].values, expected_types), ap being the
\* path of node.args[0]
visit_struct_values(func, root, ap, expected_types, i, sc) ==
    IF i > Len(expected_types) \/ i > Len(NodeAt(root, ap).c)
    THEN Done
    ELSE Then(visit(func, root, ap \o <<i>>, expected_types[i], sc),
              visit_struct_values(func, root, ap, expected_types, i + 1, sc))

\* typedef.members.values() of a struct
MemberTypes(name) ==
    [i \in 1..Len(MemberOrder[name]) |-> T(StructMembers[name][MemberOrder[name][i]])]

\* lines 562-602, call_type being the type of node.func
visit_Call_typed(func, root, p, call_type, sc) ==
    Then(Then(
         Check(call_type # ErrorT, Err("InvalidReference", 562, p \o <<1>>, <<>>)),
         visit(func, root, p \o <<1>>, call_type, sc)),
         IF call_type.t = "struct_t"
         THEN Then(Check(PositionalArgs(NodeAt(root, p)) # <<>>,
                         Err("IndexError", 588, p, <<>>)),
                   visit_struct_values(func, root, ArgPath(p, 1), MemberTypes(call_type.f), 1, sc))
         ELSE visit_Call_args(func, root, p, call_type,
                              ArgumentTypes(NodeAt(root, p), call_type, sc), sc))

visit_Call(func, root, p, typ, sc) ==
    visit_Call_typed(func, root, p, TypeOf(NodeAt(root, p).c[1], sc), sc)

\* visit_Constant (lines 647-648)
visit_Constant(func, root, p, typ, sc) ==
    Check(validate_expected_type(NodeAt(root, p), typ, sc), Err("TypeMismatch", 648, p, <<>>))

\* visit_Index (lines 650-652)
visit_Index(func, root, p, typ, sc) ==
    Then(Check(validate_expected_type(NodeAt(root, p \o <<1>>), typ, sc),
               Err("TypeMismatch", 651, p \o <<1>>, <<>>)),
         visit(func, root, p \o <<1>>, typ, sc))

\* visit_Name (lines 660-665)
visit_Name(func, root, p, typ, sc) ==
    Then(IF func.mutability = PURE THEN _validate_self_reference(root, p) ELSE Done,
         Check(validate_expected_type(NodeAt(root, p), typ, sc),
               Err("TypeMismatch", 665, p, <<>>)))

\* visit_Subscript (lines 667-694)
\* lines 672-694, base_type and index_type being the types found for
\* node.value and node.slice
visit_Subscript_typed(func, root, p, typ, base_type, index_type, sc) ==
    Then(Then(Then(
         Check(IF NodeAt(root, p).c[1].k = "Subscript"
               THEN T(ValueType(base_type.t)) = typ
               ELSE base_type # ErrorT,
               IF NodeAt(root, p).c[1].k = "Subscript"
               THEN Err("TypeCheckFailure", 682, p, <<>>)
               ELSE Err("InvalidReference", 685, p \o <<1>>, <<>>)),
         Check(index_type # ErrorT, Err("InvalidReference", 690, p \o <<2, 1>>, <<>>))),
         visit(func, root, p \o <<2>>, index_type, sc)),
         visit(func, root, p \o <<1>>, base_type, sc))

visit_Subscript(func, root, p, typ, sc) ==
    visit_Subscript_typed(func, root, p, typ, TypeOf(NodeAt(root, p).c[1], sc),
                          TypeOf(NodeAt(root, p).c[2], sc), sc)

\* the folded form of a node is addressed as its child 0
FoldedPath(p) == p \o <<0>>

\* ExprVisitor.visit (lines 505-522): super().visit(node, typ) calls the
\* handler of the node's class, then the node is annotated
visit(func, root, p, typ, sc) ==
    Then(CASE NodeAt(root, p).k = "Attribute" -> visit_Attribute(func, root, p, typ, sc)
           [] NodeAt(root, p).k = "Call" -> visit_Call(func, root, p, typ, sc)
           [] NodeAt(root, p).k \in {"Int", "Bool", "Str"} -> visit_Constant(func, root, p, typ, sc)
           [] NodeAt(root, p).k = "Index" -> visit_Index(func, root, p, typ, sc)
           [] NodeAt(root, p).k = "Name" -> visit_Name(func, root, p, typ, sc)
           [] NodeAt(root, p).k = "Subscript" -> visit_Subscript(func, root, p, typ, sc)
           [] OTHER -> Done,
    Then(Write(p, typ),
         IF has_folded_value(NodeAt(root, p))
         THEN Then(Check(validate_expected_type(get_folded_value(NodeAt(root, p)), typ, sc),
                         Err("TypeMismatch", 648, FoldedPath(p), <<>>)),
                   Write(FoldedPath(p), typ))
         ELSE Done))

(***************************************************************************)
(* FunctionNodeVisitor (lines 182-496).  Visiting a statement yields the   *)
(* expression result, the namespace it leaves, and the work it puts ahead  *)
(* of the remaining statements: the statements of a block it opened, the   *)
(* rest of its own handler, and the end of the `with` block.               *)
(***************************************************************************)
Task(op, p) == [op |-> op, p |-> p]
BlockTasks(root, bp) == [i \in 1..Len(NodeAt(root, bp).c) |-> Task("stmt", bp \o <<i>>)]

StmtRes(r, sc, push) ==
    [err |-> r.err, writes |-> r.writes, called |-> r.called, sc |-> sc, push |-> push]
Simple(r, sc) == StmtRes(r, sc, <<>>)

\* Modifiability and DataLocation given to the parameters (lines 197-200)
ParamLocation(func) == IF func.internal THEN "memory" ELSE "calldata"
ParamModifiability(func) == IF func.internal THEN "modifiable" ELSE "runtime_constant"

\* mutant of line 425: the loop variable is bound modifiable
LoopVarModifiability_Modifiable == "modifiable"

\* Modifiability of the loop variable (lines 424-426)
LoopVarModifiability == "runtime_constant"

\* VarInfo of a declared memory variable (line 240)
DeclaredVar(name, typ) == VarInfo(name, typ, "memory", "modifiable")

\* visit_AnnAssign (lines 227-243)
\* lines 228-240: the checks made before the variable is bound
visit_AnnAssign_checks(root, p, sc) ==
    LET node == NodeAt(root, p)
        typ == T(node.s)
    IN  Then(Check(node.c[1].k = "Name", Err("VariableDeclarationException", 230, p, <<>>)),
        Then(Check(Len(node.c) = 2, Err("VariableDeclarationException", 233, p, <<>>)),
        Then(Check(node.s \in KnownTypes, Err("UnknownType", 237, p, <<>>)),
        Then(Check(validate_expected_type(node.c[2], typ, sc),
                   Err("TypeMismatch", 238, p \o <<2>>, <<>>)),
             Check(~Collides(sc, node.c[1].s), Err("NamespaceCollision", 240, p, <<>>))))))

\* lines 242-243: target and value are visited in the namespace sc1
visit_AnnAssign_bound(func, root, p, typ, sc1) ==
    Simple(Then(visit(func, root, p \o <<1>>, typ, sc1),
                visit(func, root, p \o <<2>>, typ, sc1)), sc1)

visit_AnnAssign_declare(checks, func, root, p, sc) ==
    IF checks.err # NoErr
    THEN Simple(checks, sc)
    ELSE visit_AnnAssign_bound(func, root, p, T(NodeAt(root, p).s),
                               Bind(sc, DeclaredVar(NodeAt(root, p).c[1].s, NodeAt(root, p).s)))

visit_AnnAssign(func, root, p, sc) ==
    visit_AnnAssign_declare(visit_AnnAssign_checks(root, p, sc), func, root, p, sc)

\* _assign_helper (lines 269-283), for Assign and AugAssign
\* line 280, denied being what validate_modification raises
target_modifiable(denied, p) == Check(denied = "none", Err(denied, 280, p, <<>>))

\* lines 273-283, target being get_expr_info(node.target)
_assign_to(func, root, p, target, sc) ==
    Then(Then(Then(Then(
         Check(target # NoVar, Err("InvalidReference", 273, p \o <<1>>, <<>>)),
         Check(validate_expected_type(NodeAt(root, p).c[2], T(target.typ), sc),
               Err("TypeMismatch", 279, p \o <<2>>, <<>>))),
         target_modifiable(validate_modification(target, func.mutability), p)),
         visit(func, root, p \o <<2>>, T(target.typ), sc)),
         visit(func, root, p \o <<1>>, T(target.typ), sc))

_assign_helper(func, root, p, sc) ==
    Simple(_assign_to(func, root, p, get_expr_info(NodeAt(root, p).c[1], sc), sc), sc)

\* visit_Break and visit_Continue (lines 291-300)
visit_Break(func, root, p, sc) ==
    Simple(Check(get_ancestor(root, p, {"For"}) # <<>>,
                 Err("StructureException", 294, p, <<>>)), sc)

\* mutant of lines 321-324: the caller's mutability is not looked at
CallsMutatingFromView_AnyCaller(caller, callee) ==
    StateMutability[callee] > StateMutability[VIEW]

\* lines 321-324: a mutating function called from a view-or-lower function
CallsMutatingFromView(caller, callee) ==
    /\ StateMutability[callee] > StateMutability[VIEW]
    /\ StateMutability[caller] <= StateMutability[VIEW]

\* lines 330-333: a non-pure function called from a pure function
CallsNonPureFromPure(caller, callee) == caller = PURE /\ callee # PURE

\* visit_Expr (lines 302-353)
\* lines 320-336, callee being fn_type.mutability
mutability_allows(caller, callee, p) ==
    Then(Check(~CallsMutatingFromView(caller, callee),
               Err("StateAccessViolation", 325, p, <<>>)),
         Check(~CallsNonPureFromPure(caller, callee),
               Err("StateAccessViolation", 334, p, <<>>)))

\* lines 338-341, denied being what validate_modification raises
modification_allows(denied, p) == Check(denied = "none", Err(denied, 341, p, <<>>))

\* lines 344-352, return_value being what fetch_call_return gives
return_value_allows(return_value, fn_type, p) ==
    Then(Check(return_value # ErrorT, Err("ArgumentException", 344, p \o <<1>>, <<>>)),
         Check(~(return_value # T("none") /\ fn_type.t = "builtin"),
               Err("StructureException", 350, p, <<>>)))

\* lines 313-353, fn_type being the type of node.value.func
visit_Expr_call(func, root, p, sc, call, fn_type) ==
    Then(Then(Then(Then(Then(
         Check(fn_type # ErrorT, Err("InvalidReference", 313, p \o <<1, 1>>, <<>>)),
         Check(fn_type.t # "struct_t", Err("StructureException", 318, p, <<>>))),
         IF fn_type.t = "fn"
         THEN mutability_allows(func.mutability, FnOf(fn_type.f).mutability, p)
         ELSE Done),
         IF IsMemberT(fn_type)
         THEN modification_allows(
                validate_modification(get_expr_info(call.c[1].c[1], sc), func.mutability), p)
         ELSE Done),
         return_value_allows(TypeOf(call, sc), fn_type, p)),
         visit(func, root, p \o <<1>>, fn_type, sc))

visit_Expr(func, root, p, sc) ==
    Simple(IF NodeAt(root, p).c[1].k # "Call"
           THEN Raise(Err("StructureException", 311, p, <<>>))
           ELSE visit_Expr_call(func, root, p, sc, NodeAt(root, p).c[1],
                                TypeOf(NodeAt(root, p).c[1].c[1], sc)), sc)

\* visit_If (lines 445-453): the test, then the first `with` block is entered
visit_If_enter(r, root, p, sc, fid) ==
    IF r.err # NoErr
    THEN Simple(r, sc)
    ELSE StmtRes(r, PushFrame(sc, fid),
                 BlockTasks(root, p \o <<2>>) \o <<Task("else", p)>>
                 \o BlockTasks(root, p \o <<3>>) \o <<Task("exit", p)>>)

visit_If(func, root, p, sc, fid) ==
    visit_If_enter(Then(Check(validate_expected_type(NodeAt(root, p \o <<1>>), T("bool"), sc),
                              Err("TypeMismatch", 446, p \o <<1>>, <<>>)),
                        visit(func, root, p \o <<1>>, T("bool"), sc)),
                   root, p, sc, fid)

\* visit_Raise (lines 469-471) with _validate_revert_reason (lines 245-256)
visit_Raise(func, root, p, sc) ==
    LET node == NodeAt(root, p)
        msg == node.c[1]
    IN  IF node.c = <<>> THEN Simple(Done, sc)
        ELSE IF msg.k = "Str"
        THEN Simple(Then(Check(msg.s # "", Err("StructureException", 248, p \o <<1>>, <<>>)),
                         visit(func, root, p \o <<1>>, TypeOf(msg, sc), sc)), sc)
        ELSE IF msg # NameNode("UNREACHABLE")
        THEN Simple(Then(Check(validate_expected_type(msg, T("String"), sc),
                               Err("InvalidType", 254, p \o <<1>>, <<>>)),
                         visit(func, root, p \o <<1>>, TypeOf(msg, sc), sc)), sc)
        ELSE Simple(Done, sc)

\* visit_Return (lines 473-496)
visit_Return(func, root, p, sc) ==
    LET node == NodeAt(root, p)
    IN  IF node.c = <<>>
        THEN Simple(Check(func.ret = "none", Err("FunctionDeclarationException", 477, p, <<>>)), sc)
        ELSE Simple(
             Then(Check(func.ret # "none", Err("FunctionDeclarationException", 480, p, <<>>)),
             Then(Check(validate_expected_type(node.c[1], T(func.ret), sc),
                        Err("TypeMismatch", 495, p \o <<1>>, <<>>)),
                  visit(func, root, p \o <<1>>, T(func.ret), sc))), sc)

\* node.iter.get("func.id") (line 363)
FuncId(call) == IF call.c[1].k = "Name" THEN call.c[1].s ELSE ""

\* line 380: the loop body is searched for writes to the iterated value
DirectlyChecked(iter) == iter.k \in {"Name", "Attribute"}

\* lines 389-392: the iterated value is a storage variable
iter_is_storage_var(iter) ==
    /\ iter.k = "Attribute"
    /\ \E i \in PathSet(iter) : NodeAt(iter, i) = NameNode("self")

\* line 397: node.get_descendants(vy_ast.Call, {"func.value.id": "self"})
SelfCalls(node) ==
    InSourceOrder({q \in PathSet(node) \ {<<>>} :
                    /\ NodeAt(node, q).k = "Call"
                    /\ NodeAt(node, q).c[1].k = "Attribute"
                    /\ NodeAt(node, q).c[1].c[1] = NameNode("self")})

\* Descriptor.called_functions as the declaration pass would find them, and
\* reachable_internal_functions, their transitive closure, in module order.
DeclaredCallees(name) ==
    LET node == FnOf(name).node
    IN  {NodeAt(node, SelfCalls(node)[i]).c[1].s : i \in 1..Len(SelfCalls(node))}
        \cap {f \in {module.fns[j].name : j \in 1..Len(module.fns)} : FnOf(f).internal}
RECURSIVE ReachableSet(_, _)
ReachableSet(names, k) ==
    IF k = 0 THEN names
    ELSE ReachableSet(names \cup UNION {DeclaredCallees(g) : g \in names}, k - 1)
reachable_internal_functions(name) ==
    LET set == ReachableSet(DeclaredCallees(name), Len(module.fns))
    IN  SelectSeq([j \in 1..Len(module.fns) |-> module.fns[j].name], LAMBDA g : g \in set)

\* lines 409-420: the first reachable function that writes the iterated value
RECURSIVE IndirectHazard(_, _, _)
IndirectHazard(iter, reachable, i) ==
    IF i > Len(reachable) THEN <<>>
    ELSE IF _check_iterator_modification(iter, FnOf(reachable[i]).node) # <<>>
    THEN <<reachable[i]>>
    ELSE IndirectHazard(iter, reachable, i + 1)

\* lines 397-420, from the i-th self call below the For node at p on
RECURSIVE CallHazard(_, _, _, _)
CallHazard(root, p, calls, i) ==
    IF i > Len(calls) THEN NoErr
    ELSE LET node == NodeAt(root, p)
             iter == node.c[2]
             call_node == NodeAt(node, calls[i])
             fn_name == call_node.c[1].s
             indirect == IndirectHazard(iter, reachable_internal_functions(fn_name), 1)
         IN  IF ~HasFn(fn_name)
             THEN Err("IndexError", 400, p \o calls[i], <<fn_name>>)
             ELSE IF _check_iterator_modification(iter, FnOf(fn_name).node) # <<>>
             THEN Err("ImmutableViolation", 403, p \o calls[i], <<fn_name, iter.s>>)
             ELSE IF indirect # <<>>
             THEN Err("ImmutableViolation", 416, p \o calls[i], <<fn_name, indirect[1], iter.s>>)
             ELSE CallHazard(root, p, calls, i + 1)

\* visit_For up to the binding of the loop variable (lines 355-426)
\* lines 382-384: `assign` is what _check_iterator_modification returned
iterator_unmodified(assign, p) ==
    Check(assign = <<>>, Err("ImmutableViolation", 384, p \o assign[1], <<>>))

\* lines 356-420: the checks made before the loop's scope is entered
visit_For_header(root, p, sc) ==
    LET node == NodeAt(root, p)
        target == node.c[1]
        iter == node.c[2]
        iter_val == Folded(iter)
    IN  Then(Check(target.k = "Name", Err("StructureException", 357, p \o <<1>>, <<>>)),
        Then(Check(node.s \in KnownTypes, Err("UnknownType", 359, p \o <<1>>, <<>>)),
        Then(IF iter.k = "Call"
             THEN Then(Check(FuncId(iter) = "range", Err("IteratorException", 365, p \o <<2>>, <<>>)),
                       Raise(_validate_range_call(iter, p \o <<2>>)))
             ELSE Then(Check(~(iter_val.k = "List" /\ Len(iter_val.c) = 0),
                             Err("StructureException", 373, p \o <<2>>, <<>>)),
                       Check(IsArrayT(TypeOf(iter, sc).t), Err("InvalidType", 378, p \o <<2>>, <<>>))),
        Then(IF DirectlyChecked(iter)
             THEN iterator_unmodified(_check_iterator_modification(iter, node), p)
             ELSE Done,
             IF iter_is_storage_var(iter)
             THEN Raise(CallHazard(root, p, SelfCalls(node), 1))
             ELSE Done))))

\* lines 422-429: the scope is entered and the loop variable bound
visit_For_enter(header, root, p, sc, fid) ==
    IF header.err # NoErr
    THEN Simple(header, sc)
    ELSE StmtRes(header,
                 Bind(PushFrame(sc, fid),
                      VarInfo(NodeAt(root, p).c[1].s, NodeAt(root, p).s, "unset",
                              LoopVarModifiability)),
                 BlockTasks(root, p \o <<3>>) \o <<Task("fortail", p), Task("exit", p)>>)

visit_For(func, root, p, sc, fid) ==
    visit_For_enter(visit_For_header(root, p, sc), root, p, sc, fid)

\* visit_For after the body (lines 431-443)
RECURSIVE visit_range_args(_, _, _, _, _, _)
visit_range_args(func, root, paths, typ, i, sc) ==
    IF i > Len(paths) THEN Done
    ELSE Then(visit(func, root, paths[i], typ, sc),
              visit_range_args(func, root, paths, typ, i + 1, sc))

visit_For_tail(func, root, p, sc) ==
    LET node == NodeAt(root, p)
        iter == node.c[2]
        target_type == T(node.s)
        ip == p \o <<2>>
        arg_paths == [i \in 1..Len(PositionalArgs(iter)) |-> ArgPath(ip, i)]
                     \o [i \in 1..Len(Keywords(iter)) |-> KeywordPath(iter, ip, i)]
    IN  Then(visit(func, root, p \o <<1>>, target_type, sc),
             IF iter.k = "Call" /\ FuncId(iter) = "range"
             THEN visit_range_args(func, root, arg_paths, target_type, 1, sc)
             ELSE Then(Check(TypeOf(iter, sc) # ErrorT, Err("InvalidReference", 442, ip, <<>>)),
                       visit(func, root, ip, TypeOf(iter, sc), sc)))

\* VyperNodeVisitorBase.visit: dispatch on the statement kind
visit_stmt(func, root, p, sc, fid) ==
    LET k == NodeAt(root, p).k
    IN  CASE k = "AnnAssign" -> visit_AnnAssign(func, root, p, sc)
          [] k \in {"Assign", "AugAssign"} -> _assign_helper(func, root, p, sc)
          [] k \in {"Break", "Continue"} -> visit_Break(func, root, p, sc)
          [] k = "Expr" -> visit_Expr(func, root, p, sc)
          [] k = "For" -> visit_For(func, root, p, sc, fid)
          [] k = "If" -> visit_If(func, root, p, sc, fid)
          [] k = "Raise" -> visit_Raise(func, root, p, sc)
          [] k = "Return" -> visit_Return(func, root, p, sc)
          [] OTHER -> Simple(Done, sc)

(***************************************************************************)
(* validate_functions (lines 53-66) and FunctionNodeVisitor.analyze        *)
(* (lines 195-222) as steps.                                               *)
(***************************************************************************)
Fns == module.fns
CurFn == Fns[fi]
Root == CurFn.node

\* The module namespace the pass starts in: the compile-time constants.
ModuleFrame ==
    Frame(0, {VarInfo(c, "int256", "code", "constant") : c \in DOMAIN FoldedConstants})

NoFirst == [outcome |-> "none", errs |-> <<>>, ann |-> {}, called |-> <<>>]

InitWith(modules) ==
    /\ module \in modules
    /\ pass = 1
    /\ fi = 1
    /\ pc = "idle"
    /\ tasks = <<>>
    /\ scopes = <<ModuleFrame>>
    /\ nextFrame = 1
    /\ exc = NoErr
    /\ err_list = <<>>
    /\ ann = {}
    /\ writes = <<>>
    /\ called = [i \in 1..Len(module.fns) |-> {}]
    /\ attempts = [i \in 1..Len(module.fns) |-> 0]
    /\ outcome = "none"
    /\ first = NoFirst

\* node._metadata["type"] = typ, for every write of a visit, in order: a
\* node keeps the type written last
Annotate(a, f, ws) ==
    {x \in a : ~(x.fn = f /\ \E i \in 1..Len(ws) : ws[i].p = x.p)}
    \cup {[fn |-> f, p |-> ws[i].p, typ |-> ws[i].typ] :
            i \in {j \in 1..Len(ws) : \A k \in (j + 1)..Len(ws) : ws[k].p # ws[j].p}}

\* mutant of line 571: adding a callee already in the set removes it
AddCalled_Toggle(cf, f, names) ==
    [cf EXCEPT ![f] = (@ \ names) \cup (names \ @)]

\* called_functions.add(call_type), for every callee a visit recorded
AddCalled(cf, f, names) == [cf EXCEPT ![f] = @ \cup names]

\* what an expression visit leaves on the nodes and the descriptor
Effects(r) ==
    /\ ann' = Annotate(ann, fi, r.writes)
    /\ writes' = writes \o [i \in 1..Len(r.writes) |-> [fn |-> fi, p |-> r.writes[i].p]]
    /\ called' = AddCalled(called, fi, r.called)

\* lines 202-205: the parameters, positional then keyword, are bound in the
\* function's frame
RECURSIVE BindArgs(_, _, _)
BindArgs(sc, func, i) ==
    LET arguments == func.args \o func.kwargs
    IN  IF i > Len(arguments) THEN sc
        ELSE BindArgs(Bind(sc, VarInfo(arguments[i].name, arguments[i].typ,
                                       ParamLocation(func), ParamModifiability(func))),
                      func, i + 1)

\* mutant of lines 210-222: the keyword defaults are checked before termination
Phases_KwargsFirst == <<Task("kwargs", <<>>), Task("term", <<>>)>>

\* lines 210-222: after the body, the terminator scan, then the keyword defaults
Phases == <<Task("term", <<>>), Task("kwargs", <<>>)>>

\* lines 58-62 and 195-205: the next FunctionDef gets a frame and a visitor
BeginFunction ==
    /\ pc = "idle" /\ fi <= Len(Fns)
    /\ pc' = "body"
    /\ scopes' = BindArgs(PushFrame(scopes, nextFrame), CurFn, 1)
    /\ nextFrame' = nextFrame + 1
    /\ tasks' = BlockTasks(Root, <<1>>) \o Phases
    /\ attempts' = [attempts EXCEPT ![fi] = @ + 1]
    /\ UNCHANGED <<module, pass, fi, exc, err_list, ann, writes, called, outcome, first>>

Running(op) == pc = "body" /\ exc = NoErr /\ tasks # <<>> /\ Head(tasks).op = op

\* lines 207-208, 428-429, 449-450, 452-453: self.visit(node)
StmtStep(r) ==
    /\ Effects(r)
    /\ IF r.err # NoErr
       THEN exc' = r.err /\ UNCHANGED <<tasks, scopes, nextFrame>>
       ELSE /\ exc' = exc
            /\ tasks' = r.push \o Tail(tasks)
            /\ scopes' = r.sc
            /\ nextFrame' = nextFrame + (Len(r.sc) - Len(scopes))

VisitStmt ==
    /\ Running("stmt")
    /\ StmtStep(visit_stmt(CurFn, Root, Head(tasks).p, scopes, nextFrame))
    /\ UNCHANGED <<module, pass, fi, pc, err_list, attempts, outcome, first>>

\* lines 431-443: the loop variable and the iterated value are annotated
\* an expression visit ends: its effects stay, its exception is in flight
ExprStep(r) ==
    /\ Effects(r)
    /\ IF r.err # NoErr
       THEN exc' = r.err /\ tasks' = tasks
       ELSE exc' = exc /\ tasks' = Tail(tasks)

ForTail ==
    /\ Running("fortail")
    /\ ExprStep(visit_For_tail(CurFn, Root, Head(tasks).p, scopes))
    /\ UNCHANGED <<module, pass, fi, pc, scopes, nextFrame, err_list, attempts, outcome, first>>

\* lines 450-451: the frame of the then-arm is left, that of the else-arm entered
IfElse ==
    /\ Running("else")
    /\ scopes' = PushFrame(PopFrames(scopes, 1), nextFrame)
    /\ nextFrame' = nextFrame + 1
    /\ tasks' = Tail(tasks)
    /\ UNCHANGED <<module, pass, fi, pc, exc, err_list, ann, writes, called, attempts,
                   outcome, first>>

\* end of a `with self.namespace.enter_scope()` block (lines 423, 451)
ExitScope ==
    /\ Running("exit")
    /\ scopes' = PopFrames(scopes, 1)
    /\ tasks' = Tail(tasks)
    /\ UNCHANGED <<module, pass, fi, pc, nextFrame, exc, err_list, ann, writes, called,
                   attempts, outcome, first>>

\* line 211: `not find_terminating_node(...)`
NoTerminus(found) == found.ret = <<>>

\* lines 210-217
missing_return(func, found) ==
    IF found.raised THEN Err("StructureException", 76, found.at, <<>>)
    ELSE IF func.ret # "none" /\ NoTerminus(found)
    THEN Err("FunctionDeclarationException", 212, <<>>, <<func.name>>)
    ELSE NoErr
check_termination(func, root) == missing_return(func, find_terminating_node(root, <<1>>))

TermStep(e) ==
    IF e # NoErr
    THEN exc' = e /\ tasks' = tasks
    ELSE exc' = exc /\ tasks' = Tail(tasks)

TerminatorCheck ==
    /\ Running("term")
    /\ TermStep(check_termination(CurFn, Root))
    /\ UNCHANGED <<module, pass, fi, pc, scopes, nextFrame, err_list, ann, writes, called,
                   attempts, outcome, first>>

\* lines 221-222: for kwarg in self.func.keyword_args
RECURSIVE visit_kwargs(_, _, _, _)
visit_kwargs(func, root, i, sc) ==
    IF i > Len(func.kwargs) THEN Done
    ELSE Then(visit(func, root, <<1 + i>>, T(func.kwargs[i].typ), sc),
              visit_kwargs(func, root, i + 1, sc))

\* lines 219-222
VisitKwargs ==
    /\ Running("kwargs")
    /\ ExprStep(Then(Check(Len(CurFn.kwargs) = Len(Root.c) - 1,
                           Err("AssertionError", 220, <<>>, <<>>)),
                     visit_kwargs(CurFn, Root, 1, scopes)))
    /\ UNCHANGED <<module, pass, fi, pc, scopes, nextFrame, err_list, attempts, outcome, first>>

\* analyze() returned: the function's `with` block ends (line 59)
EndFunction ==
    /\ pc = "body" /\ exc = NoErr /\ tasks = <<>>
    /\ scopes' = PopFrames(scopes, 1)
    /\ fi' = fi + 1
    /\ pc' = "idle"
    /\ UNCHANGED <<module, pass, tasks, nextFrame, exc, err_list, ann, writes, called,
                   attempts, outcome, first>>

\* `with` blocks the exception leaves on its way out of analyze()
OpenBlocks(ts) == Len(SelectSeq(ts, LAMBDA t : t.op = "exit"))

\* mutant: an exception leaves the function's block only
FramesLeft_FunctionOnly(ts) == 1

\* the `with` blocks an exception leaves: those open inside analyze()
\* (lines 423, 448, 451) and the function's own (line 59)
FramesLeft(ts) == OpenBlocks(ts) + 1

\* line 63: except VyperException
Caught(e) == IsVyperException(e)

\* An exception leaves every open `with` block and reaches line 63: a
\* VyperException is appended to err_list, anything else leaves the pass.
HandleException ==
    /\ pc = "body" /\ exc # NoErr
    /\ scopes' = PopFrames(scopes, FramesLeft(tasks))
    /\ tasks' = <<>>
    /\ exc' = NoErr
    /\ IF Caught(exc)
       THEN /\ err_list' = Append(err_list, [fn |-> fi, e |-> exc])
            /\ fi' = fi + 1
            /\ pc' = "idle"
            /\ UNCHANGED <<outcome, first>>
       ELSE /\ err_list' = err_list
            /\ fi' = fi
            /\ pc' = "done"
            /\ outcome' = "crashed"
            /\ first' = IF pass = 1
                        THEN [outcome |-> "crashed", errs |-> err_list, ann |-> ann,
                              called |-> called]
                        ELSE first
    /\ UNCHANGED <<module, pass, nextFrame, ann, writes, called, attempts>>

\* line 66: err_list.raise_if_not_empty()
Raises(errs) == errs # <<>>

RaiseIfNotEmpty ==
    /\ pc = "idle" /\ fi > Len(Fns)
    /\ pc' = "done"
    /\ outcome' = IF Raises(err_list) THEN "raised" ELSE "returned"
    /\ first' = IF pass = 1
                THEN [outcome |-> outcome', errs |-> err_list, ann |-> ann, called |-> called]
                ELSE first
    /\ UNCHANGED <<module, pass, fi, tasks, scopes, nextFrame, exc, err_list, ann, writes,
                   called, attempts>>

\* validate_functions is called again on the same, now annotated, module
SecondPass ==
    /\ pc = "done" /\ pass = 1
    /\ pass' = 2
    /\ fi' = 1
    /\ pc' = "idle"
    /\ err_list' = <<>>
    /\ writes' = <<>>
    /\ attempts' = [i \in 1..Len(Fns) |-> 0]
    /\ outcome' = "none"
    /\ UNCHANGED <<module, tasks, scopes, nextFrame, exc, ann, called, first>>

Next ==
    \/ BeginFunction
    \/ VisitStmt
    \/ ForTail
    \/ IfElse
    \/ ExitScope
    \/ TerminatorCheck
    \/ VisitKwargs
    \/ EndFunction
    \/ HandleException
    \/ RaiseIfNotEmpty
    \/ SecondPass

(***************************************************************************)
(* Input modules.                                                          *)
(***************************************************************************)
Module(fns) == [fns |-> fns]
Arg(name, typ) == [name |-> name, typ |-> typ]
Kwarg(name, typ, default) == [name |-> name, typ |-> typ, default |-> default]

SeqsUpTo(S, n) == UNION {[1..k -> S] : k \in 0..n}
RangeCall(args) == CallNode(NameNode("range"), args)
SelfAttr(attr) == AttributeNode(NameNode("self"), attr)
SelfCall(name, args) == CallNode(SelfAttr(name), args)

\* Modules every specification also analyses: a conditional, a loop, a
\* keyword default, a failing function next to a passing one.
SmokeModules ==
    {Module(<<FunctionDef("f", TRUE, NONPAYABLE, <<Arg("c", "bool")>>, "none",
                          <<IfStmt(NameNode("c"), <<PassStmt>>, <<body>>),
                            ForStmt(NameNode("i"), "uint256", RangeCall(<<IntNode(2)>>),
                                    <<PassStmt>>)>>,
                          <<Kwarg("k", "uint256", IntNode(1))>>),
              FunctionDef("g", TRUE, NONPAYABLE, <<>>, "none", <<PassStmt>>, <<>>)>>)
     : body \in {PassStmt, BreakStmt}}

(* Bodies for the terminator scan.  Every statement is well typed, so the  *)
(* only failures are those of lines 76 and 212.                            *)
MaxTop == 2

TermReturn(ret) == ReturnStmt(IF ret = "none" THEN <<>> ELSE <<IntNode(1)>>)
TermIf(body, orelse) == IfStmt(NameNode("c"), body, orelse)
TermFor(body) == ForStmt(NameNode("i"), "uint256", RangeCall(<<IntNode(2)>>), body)

TermLeaf(ret) == {TermReturn(ret), PassStmt}
TermInner(ret) ==
    LET R == TermReturn(ret)
    IN  {<<R>>, <<PassStmt>>, <<R, PassStmt>>, <<PassStmt, R>>}
TermLevel1(ret) ==
    {TermIf(b, o) : b \in TermInner(ret), o \in TermInner(ret) \cup {<<>>}}
    \cup {TermFor(b) : b \in TermInner(ret)}
TermLevel2(ret) ==
    LET R == TermReturn(ret)
    IN  {TermIf(<<s>>, <<R>>) : s \in TermLevel1(ret)}
        \cup {TermIf(<<R>>, <<s>>) : s \in TermLevel1(ret)}
        \cup {TermFor(<<s>>) : s \in TermLevel1(ret)}
TermSmall(ret) ==
    LET R == TermReturn(ret)
    IN  TermLeaf(ret) \cup {RaiseStmt, TermIf(<<R>>, <<R>>), TermIf(<<R>>, <<>>), TermFor(<<R>>)}
TermFirst(ret) == TermLeaf(ret) \cup {RaiseStmt} \cup TermLevel1(ret) \cup TermLevel2(ret)
TermBodies(ret) ==
    {<<s>> \o rest : s \in TermFirst(ret), rest \in SeqsUpTo(TermSmall(ret), MaxTop - 1)}

TermModules ==
    {Module(<<FunctionDef("f", TRUE, NONPAYABLE, <<Arg("c", "bool")>>, ret, body, <<>>)>>)
     : ret \in {"none"}, body \in TermBodies("none")}
    \cup
    {Module(<<FunctionDef("f", TRUE, NONPAYABLE, <<Arg("c", "bool")>>, ret, body, <<>>)>>)
     : ret \in {"uint256"}, body \in TermBodies("uint256")}

SpecTerm == InitWith(TermModules \cup SmokeModules) /\ [][Next]_vars

(***************************************************************************)
(* What a state says about the functions analysed so far in this pass.     *)
(***************************************************************************)
Attempted(i) == i \in 1..Len(Fns) /\ (fi > i \/ (fi = i /\ pc = "done"))
ErrorsOf(i) == {err_list[k].e : k \in {j \in 1..Len(err_list) : err_list[j].fn = i}}
Succeeded(i) == Attempted(i) /\ fi > i /\ ErrorsOf(i) = {}
FailedAt(i, kind, site) == \E e \in ErrorsOf(i) : e.kind = kind /\ e.site = site
Body(i) == Fns[i].node.c[1]

\* Control paths: a path leaves a statement at its end unless the statement
\* is a return/revert, or a conditional no arm of which a path leaves; a
\* loop may run zero times.
RECURSIVE CanFallThrough(_)
CanFallThrough(node) ==
    CASE node.k \in {"Return", "Raise"} -> FALSE
      [] node.k = "If" -> CanFallThrough(node.c[2]) \/ CanFallThrough(node.c[3])
      [] node.k = "Block" -> \A i \in 1..Len(node.c) : CanFallThrough(node.c[i])
      [] OTHER -> TRUE
AllPathsReturn(block) == ~CanFallThrough(block)

\* A statement proven to be a terminus: a return/revert, or an if/else both
\* arms of which hold one.
RECURSIVE Proven(_)
Proven(node) ==
    \/ node.k \in {"Return", "Raise"}
    \/ /\ node.k = "If"
       /\ \E i \in 1..Len(node.c[2].c) : Proven(node.c[2].c[i])
       /\ \E i \in 1..Len(node.c[3].c) : Proven(node.c[3].c[i])

\* The statements that follow a proven terminus in their own block, at any depth.
DeadStatements(root) ==
    {p \in PathSet(root) :
        /\ p # <<>>
        /\ NodeAt(root, Parent(p)).k = "Block"
        /\ \E j \in 1..(p[Len(p)] - 1) : Proven(NodeAt(root, Parent(p)).c[j])}

\* The same tree with every block cut after its first proven terminus.
RECURSIVE Prune(_)
RECURSIVE PruneList(_, _)
PruneList(stmts, i) ==
    IF i > Len(stmts) THEN <<>>
    ELSE IF Proven(stmts[i]) THEN <<Prune(stmts[i])>>
    ELSE <<Prune(stmts[i])>> \o PruneList(stmts, i + 1)
Prune(node) ==
    IF node.k = "Block" THEN [node EXCEPT !.c = PruneList(node.c, 1)]
    ELSE IF node.k \in {"If", "For", "FunctionDef"}
    THEN [node EXCEPT !.c = [i \in 1..Len(node.c) |-> Prune(node.c[i])]]
    ELSE node

HasReturnType(i) == Fns[i].ret # "none"
LastStmt(i) == Body(i).c[Len(Body(i).c)]
EndsInReturningIfElse(i) ==
    /\ LastStmt(i).k = "If"
    /\ \A a \in {2, 3} : Len(LastStmt(i).c[a].c) = 1 /\ LastStmt(i).c[a].c[1].k = "Return"
    /\ \A j \in 1..(Len(Body(i).c) - 1) : Body(i).c[j].k = "Pass"

\* C2 as claimed: a function with a declared return type succeeds only if
\* every control path reaches a return/revert, and otherwise fails with the
\* missing-return FunctionDeclarationException of line 212.
C2_Original ==
    \A i \in 1..Len(Fns) :
        (Attempted(i) /\ HasReturnType(i)) =>
            /\ Succeeded(i) => AllPathsReturn(Body(i))
            /\ ~AllPathsReturn(Body(i)) => FailedAt(i, "FunctionDeclarationException", 212)

\* C2 (amended): a function with a declared return type and well-typed
\* statements succeeds only if every control path through its body reaches a
\* return/revert; when some path does not, it fails with the missing-return
\* FunctionDeclarationException (line 212) if no block holds a statement
\* after a proven terminus, and with the unreachable-code StructureException
\* (line 76) if one does.  A body ending in an if/else whose arms both
\* return succeeds.
C2_MissingReturn ==
    \A i \in 1..Len(Fns) :
        (Attempted(i) /\ HasReturnType(i)) =>
            /\ Succeeded(i) => AllPathsReturn(Body(i))
            /\ ~AllPathsReturn(Body(i)) =>
                   IF DeadStatements(Body(i)) = {}
                   THEN FailedAt(i, "FunctionDeclarationException", 212)
                   ELSE FailedAt(i, "StructureException", 76)
            /\ EndsInReturningIfElse(i) => Succeeded(i)

\* C2 witness: a function with a return type whose body ends in an if/else
\* with both arms returning has been analysed and passed.
C2_Witness ==
    /\ pc = "done" /\ outcome = "returned"
    /\ HasReturnType(1) /\ EndsInReturningIfElse(1) /\ Len(Body(1).c) = 1 /\ Succeeded(1)

\* C3: the terminator scan raises the unreachable-code StructureException
\* (line 76) iff some statement follows a proven terminus in its own block,
\* at any nesting depth, and the error names such a statement; with every
\* such statement removed the scan raises nothing.  With or without a
\* declared return type.
C3_Unreachable ==
    \A i \in 1..Len(Fns) :
        Attempted(i) /\ (\A e \in ErrorsOf(i) : e.site \in {76, 212}) =>
            /\ FailedAt(i, "StructureException", 76) <=> DeadStatements(Body(i)) # {}
            /\ \A e \in ErrorsOf(i) : e.site = 76 => SubSeq(e.at, 2, Len(e.at)) \in DeadStatements(Body(i))
            /\ ~find_terminating_node(Prune(Fns[i].node), <<1>>).raised
            /\ DeadStatements(Prune(Body(i))) = {}

\* C3 witness: a function without a return type failed on a dead statement
\* inside a nested block.
C3_Witness ==
    \E i \in 1..Len(Fns) :
        /\ ~HasReturnType(i)
        /\ \E e \in ErrorsOf(i) : e.site = 76 /\ Len(e.at) > 4

(* Loops over range(): one or two positional arguments and an optional     *)
(* bound, each an integer literal, a constant that folds to one, or the    *)
(* parameter n; also calls validate_call_args refuses.                     *)
MaxLit == 3

RangeOperands ==
    {IntNode(v) : v \in 0..MaxLit}
    \cup {NameNode(c) : c \in DOMAIN FoldedConstants} \cup {NameNode("n")}
RangeCalls ==
    {RangeCall(args \o kw) :
        args \in [1..1 -> RangeOperands] \cup [1..2 -> RangeOperands],
        kw \in {<<>>} \cup {<<KeywordNode("bound", b)>> : b \in RangeOperands}}
    \cup {RangeCall(<<>>), RangeCall(<<IntNode(0), IntNode(1), IntNode(2)>>),
          RangeCall(<<IntNode(2), KeywordNode("step", IntNode(1))>>)}
RangeModules ==
    {Module(<<FunctionDef("f", TRUE, NONPAYABLE, <<Arg("n", "int256")>>, "none",
                          <<ForStmt(NameNode("i"), "int256", call, <<PassStmt>>)>>, <<>>)>>)
     : call \in RangeCalls}

SpecRange == InitWith(RangeModules \cup SmokeModules) /\ [][Next]_vars

\* The value of an operand that is a literal integer after constant folding.
LiteralValue(a) ==
    IF a.k = "Int" THEN <<a.n>>
    ELSE IF a.k = "Name" /\ a.s \in DOMAIN FoldedConstants THEN <<FoldedConstants[a.s]>>
    ELSE <<>>

\* The range calls the claim is about, and those it says are accepted.
IsRangeLoop(i) ==
    /\ Len(Body(i).c) = 1 /\ Body(i).c[1].k = "For"
    /\ Body(i).c[1].c[2].k = "Call" /\ FuncId(Body(i).c[1].c[2]) = "range"
    /\ Len(PositionalArgs(Body(i).c[1].c[2])) \in {1, 2}
    /\ \A j \in 1..Len(Keywords(Body(i).c[1].c[2])) : Keywords(Body(i).c[1].c[2])[j].s = "bound"
RangeShouldPass(call) ==
    LET args == PositionalArgs(call)
        start == IF Len(args) = 1 THEN <<0>> ELSE LiteralValue(args[1])
        end == LiteralValue(args[Len(args)])
        bound == LiteralValue(Keywords(call)[1].c[1])
    IN  IF Keywords(call) = <<>>
        THEN start # <<>> /\ end # <<>> /\ end[1] > start[1]
        ELSE bound # <<>> /\ bound[1] >= 1 /\ ~(start # <<>> /\ end # <<>>)
RangeSites == {736, 738, 741, 746, 748}

\* C4: _validate_range_call accepts a range call of one or two arguments
\* exactly when: no bound is given, start and end are literal integers after
\* folding and end > start; or a bound is given, it is a literal integer
\* >= 1 and start and end are not both literal.  An accepted loop is
\* analysed to its end; a refused one raises at lines 736-748.
C4_RangeCall ==
    \A i \in 1..Len(Fns) :
        (Attempted(i) /\ IsRangeLoop(i)) =>
            /\ (\E e \in ErrorsOf(i) : e.site \in RangeSites) <=> ~RangeShouldPass(Body(i).c[1].c[2])
            /\ RangeShouldPass(Body(i).c[1].c[2]) => Succeeded(i)

\* C4 witness: range(0, n, bound=2) was accepted and its loop analysed.
C4_Witness ==
    /\ IsRangeLoop(1) /\ Succeeded(1)
    /\ Body(1).c[1].c[2] = RangeCall(<<IntNode(0), NameNode("n"), KeywordNode("bound", IntNode(2))>>)

(* Loops over arrays.  f iterates E with one statement in the loop body;   *)
(* g and h are the internal functions the body may call, g possibly        *)
(* calling h.  Statements are well typed apart from the undefined callee   *)
(* `nope` and the non-member `extend`.                                     *)
Sub0(value) == SubscriptNode(value, IntNode(0))
MemberCall(value, attr, args) == ExprStmt(CallNode(AttributeNode(value, attr), args))

\* the statements that write the array X of type t, or below it
WritesTo(X, t) ==
    CASE t = "DynArray" ->
            {AssignStmt(Sub0(X), IntNode(1)), AugAssignStmt(Sub0(X), IntNode(1)),
             AssignStmt(X, SelfAttr("brr")),
             MemberCall(X, "append", <<IntNode(1)>>), MemberCall(X, "pop", <<>>),
             MemberCall(X, "extend", <<SelfAttr("brr")>>)}
      [] t = "DynArray2" ->
            {AssignStmt(Sub0(X), SelfAttr("brr")), AssignStmt(Sub0(Sub0(X)), IntNode(1)),
             MemberCall(Sub0(X), "pop", <<>>), MemberCall(Sub0(X), "append", <<IntNode(1)>>)}
      [] t = "DynArrayS" ->
            {AssignStmt(AttributeNode(Sub0(X), "items"), SelfAttr("brr")),
             AssignStmt(Sub0(AttributeNode(Sub0(X), "items")), IntNode(1)),
             MemberCall(AttributeNode(Sub0(X), "items"), "append", <<IntNode(1)>>),
             MemberCall(AttributeNode(Sub0(X), "items"), "pop", <<>>)}

IterExprs ==
    {[e |-> NameNode("a"), t |-> "DynArray"], [e |-> SelfAttr("arr"), t |-> "DynArray"],
     [e |-> SelfAttr("nested"), t |-> "DynArray2"], [e |-> SelfAttr("recs"), t |-> "DynArrayS"],
     [e |-> Sub0(SelfAttr("nested")), t |-> "DynArray"]}

LoopOver(it, body) ==
    FunctionDef("f", TRUE, NONPAYABLE, <<Arg("a", "DynArray"), Arg("c", "bool")>>, "none",
                <<ForStmt(NameNode("x"), ValueType(it.t), it.e, body)>>, <<>>)
Nestings(stmt) ==
    {<<stmt>>, <<IfStmt(NameNode("c"), <<stmt>>, <<>>)>>,
     <<IfStmt(NameNode("c"), <<PassStmt>>, <<stmt>>)>>,
     <<PassStmt, stmt>>}

\* the body writes the iterated array, another array, or only reads
DirectModules ==
    {Module(<<LoopOver(it, body)>>) :
        it \in IterExprs,
        body \in UNION {Nestings(stmt) :
                        stmt \in UNION {WritesTo(w.e, w.t) : w \in IterExprs}
                                 \cup {PassStmt, AnnAssignStmt(NameNode("y"), "uint256",
                                                               <<Sub0(SelfAttr("arr"))>>)}}}

StorageWrites ==
    {MemberCall(SelfAttr("arr"), "pop", <<>>), AssignStmt(Sub0(SelfAttr("arr")), IntNode(1)),
     MemberCall(SelfAttr("brr"), "append", <<IntNode(1)>>),
     MemberCall(Sub0(SelfAttr("nested")), "pop", <<>>),
     AssignStmt(Sub0(SelfAttr("nested")), SelfAttr("brr")),
     MemberCall(AttributeNode(Sub0(SelfAttr("recs")), "items"), "pop", <<>>)}
Callee(name, stmt) == FunctionDef(name, TRUE, NONPAYABLE, <<>>, "none", <<stmt>>, <<>>)
CallStmt(name) == ExprStmt(SelfCall(name, <<>>))
CallBodies ==
    {<<CallStmt("g")>>, <<IfStmt(NameNode("c"), <<PassStmt>>, <<CallStmt("g")>>)>>,
     <<CallStmt("h"), CallStmt("g")>>, <<CallStmt("nope")>>}
CallModules ==
    {Module(<<LoopOver(it, body), Callee("g", gs), Callee("h", hs)>>) :
        it \in IterExprs, body \in CallBodies,
        gs \in StorageWrites \cup {PassStmt, CallStmt("h")},
        hs \in StorageWrites \cup {PassStmt}}

SpecIter == InitWith(DirectModules \cup CallModules \cup SmokeModules) /\ [][Next]_vars

\* The loop the claims are about: the first statement of function i.
IsArrayLoop(i) ==
    /\ Body(i).c # <<>> /\ Body(i).c[1].k = "For"
    /\ Body(i).c[1].c[2].k \in {"Name", "Attribute", "Subscript"}
LoopOf(i) == Body(i).c[1]
LoopPath == <<1, 1>>
IterOf(i) == LoopOf(i).c[2]

\* R is E or an index/attribute access rooted at E
RECURSIVE RootedAt(_, _)
RootedAt(R, E) ==
    \/ compare_nodes(R, E)
    \/ R.k \in {"Subscript", "Attribute"} /\ RootedAt(R.c[1], E)

\* the node is an assignment to, or an append/pop/extend on, E or an access rooted at E
WritesIterated(n, E) ==
    \/ n.k \in {"Assign", "AugAssign"} /\ RootedAt(n.c[1], E)
    \/ /\ n.k = "Call" /\ n.c[1].k = "Attribute"
       /\ n.c[1].s \in {"append", "pop", "extend"}
       /\ RootedAt(n.c[1].c[1], E)
Mutates(tree, E) ==
    \E j \in PathSet(tree) : WritesIterated(NodeAt(tree, j), E)

LoopEntered(i) ==
    \/ fi = i /\ \E j \in 1..Len(tasks) : tasks[j].op = "fortail" /\ tasks[j].p = LoopPath
    \/ \E j \in 1..Len(writes) : writes[j].fn = i /\ IsPrefix(LoopPath, writes[j].p)

\* C5: a loop over an array-typed variable or attribute E whose body, at any
\* depth, assigns to E or to an access rooted at E, or calls
\* append/pop/extend on E or on an access rooted at E, fails with
\* ImmutableViolation (line 384) at a sub-expression equal to E, and the
\* loop body is never visited.
C5_DirectModification ==
    \A i \in 1..Len(Fns) :
        (/\ IsArrayLoop(i) /\ IterOf(i).k \in {"Name", "Attribute"}
         /\ Mutates(LoopOf(i).c[3], IterOf(i)))
        => /\ ~LoopEntered(i)
           /\ Attempted(i) =>
                \E e \in ErrorsOf(i) :
                    /\ e.kind = "ImmutableViolation" /\ e.site = 384
                    /\ compare_nodes(NodeAt(Fns[i].node, e.at), IterOf(i))

\* C5, the part the code keeps: when the write is an assignment, or the
\* receiver of append/pop/extend reaches E without passing through another
\* attribute access, the loop fails at line 384 and its body is never visited.
RECURSIVE ReachedByIndex(_, _)
ReachedByIndex(R, E) ==
    \/ compare_nodes(R, E)
    \/ R.k = "Subscript" /\ ReachedByIndex(R.c[1], E)
WritesIteratedNarrow(n, E) ==
    \/ n.k \in {"Assign", "AugAssign"} /\ RootedAt(n.c[1], E)
    \/ /\ n.k = "Call" /\ n.c[1].k = "Attribute"
       /\ n.c[1].s \in {"append", "pop", "extend"}
       /\ ReachedByIndex(n.c[1].c[1], E)
C5_Detected ==
    \A i \in 1..Len(Fns) :
        (/\ IsArrayLoop(i) /\ IterOf(i).k \in {"Name", "Attribute"}
         /\ \E j \in PathSet(LoopOf(i).c[3]) :
                WritesIteratedNarrow(NodeAt(LoopOf(i).c[3], j), IterOf(i)))
        => /\ ~LoopEntered(i)
           /\ Attempted(i) =>
                \E e \in ErrorsOf(i) :
                    /\ e.kind = "ImmutableViolation" /\ e.site = 384
                    /\ compare_nodes(NodeAt(Fns[i].node, e.at), IterOf(i))

\* C5 witness: the loop over self.nested with self.nested[0].pop() under an
\* else-arm has failed at line 384.
C5_Witness ==
    /\ Attempted(1) /\ IsArrayLoop(1) /\ IterOf(1) = SelfAttr("nested")
    /\ LoopOf(1).c[3] = Block(<<IfStmt(NameNode("c"), <<PassStmt>>,
                                       <<MemberCall(Sub0(SelfAttr("nested")), "pop", <<>>)>>)>>)
    /\ FailedAt(1, "ImmutableViolation", 384)

\* The self calls of the loop of function i, and what the callees write.
LoopCalls(i) == SelfCalls(LoopOf(i))
CalleeOf(i, j) == NodeAt(LoopOf(i), LoopCalls(i)[j]).c[1].s
WritesDirectly(f, E) == HasFn(f) /\ Mutates(FnOf(f).node, E)
WritesDeeper(f, E) ==
    IF HasFn(f)
    THEN {g \in {module.fns[k].name : k \in 1..Len(module.fns)} :
            /\ \E k \in 1..Len(reachable_internal_functions(f)) :
                    reachable_internal_functions(f)[k] = g
            /\ Mutates(FnOf(g).node, E)}
    ELSE {}
HazardousCalls(i) ==
    {j \in 1..Len(LoopCalls(i)) :
        \/ WritesDirectly(CalleeOf(i, j), IterOf(i))
        \/ WritesDeeper(CalleeOf(i, j), IterOf(i)) # {}}
FirstHazard(i) == CHOOSE j \in HazardousCalls(i) : \A k \in HazardousCalls(i) : j <= k
NamedFunctions(e) == SubSeq(e.info, 1, Len(e.info) - 1)
CallGraphLoop(i) ==
    /\ Attempted(i) /\ IsArrayLoop(i)
    /\ RootedAt(IterOf(i), NameNode("self"))
    /\ ~Mutates(LoopOf(i).c[3], IterOf(i))

\* C6: for a loop over an expression rooted at self, if a function f called
\* as self.f() in the loop, or a function reachable from f, writes an
\* expression equal to the iterated one, visit_For fails with
\* ImmutableViolation at the first such call, naming f alone when f writes
\* it and f with the deeper function otherwise; when no called or reachable
\* function writes it, the check raises nothing.
C6_CallGraph ==
    \A i \in 1..Len(Fns) :
        CallGraphLoop(i) =>
            IF HazardousCalls(i) # {}
            THEN \E e \in ErrorsOf(i) :
                    /\ e.kind = "ImmutableViolation"
                    /\ e.at = LoopPath \o LoopCalls(i)[FirstHazard(i)]
                    /\ IF WritesDirectly(CalleeOf(i, FirstHazard(i)), IterOf(i))
                       THEN NamedFunctions(e) = <<CalleeOf(i, FirstHazard(i))>>
                       ELSE /\ Len(NamedFunctions(e)) = 2
                            /\ NamedFunctions(e)[1] = CalleeOf(i, FirstHazard(i))
                            /\ NamedFunctions(e)[2] \in
                                    WritesDeeper(CalleeOf(i, FirstHazard(i)), IterOf(i))
            ELSE /\ \A e \in ErrorsOf(i) : e.site \notin {403, 416}
                 /\ ~(fi = i /\ outcome = "crashed")

\* C6, the part the code keeps: the same, for loops over a storage variable
\* self.x itself, callees that are defined, and writes the scan of lines
\* 107-123 recognises.
NarrowMutates(tree, E) ==
    \E j \in PathSet(tree) : WritesIteratedNarrow(NodeAt(tree, j), E)
NarrowDirectly(f, E) == NarrowMutates(FnOf(f).node, E)
NarrowDeeper(f, E) ==
    {g \in {module.fns[k].name : k \in 1..Len(module.fns)} :
        /\ \E k \in 1..Len(reachable_internal_functions(f)) :
                reachable_internal_functions(f)[k] = g
        /\ NarrowMutates(FnOf(g).node, E)}
NarrowHazards(i) ==
    {j \in 1..Len(LoopCalls(i)) :
        \/ NarrowDirectly(CalleeOf(i, j), IterOf(i))
        \/ NarrowDeeper(CalleeOf(i, j), IterOf(i)) # {}}
NarrowFirst(i) == CHOOSE j \in NarrowHazards(i) : \A k \in NarrowHazards(i) : j <= k
C6_StorageVariable ==
    \A i \in 1..Len(Fns) :
        (/\ CallGraphLoop(i) /\ IterOf(i).k = "Attribute"
         /\ \A j \in 1..Len(LoopCalls(i)) : HasFn(CalleeOf(i, j)))
        => IF NarrowHazards(i) # {}
           THEN \E e \in ErrorsOf(i) :
                    /\ e.kind = "ImmutableViolation"
                    /\ e.at = LoopPath \o LoopCalls(i)[NarrowFirst(i)]
                    /\ IF NarrowDirectly(CalleeOf(i, NarrowFirst(i)), IterOf(i))
                       THEN e.site = 403 /\ NamedFunctions(e) = <<CalleeOf(i, NarrowFirst(i))>>
                       ELSE /\ e.site = 416 /\ Len(NamedFunctions(e)) = 2
                            /\ NamedFunctions(e)[1] = CalleeOf(i, NarrowFirst(i))
                            /\ NamedFunctions(e)[2] \in
                                    NarrowDeeper(CalleeOf(i, NarrowFirst(i)), IterOf(i))
           ELSE /\ \A e \in ErrorsOf(i) : e.site \notin {403, 416}
                /\ outcome # "crashed"

\* C6 witness: the loop over self.nested calls g, g calls h, and h pops
\* self.nested[0]; the call of g was refused at line 416 naming g and h.
C6_Witness ==
    /\ Attempted(1) /\ IsArrayLoop(1) /\ IterOf(1) = SelfAttr("nested")
    /\ \E e \in ErrorsOf(1) : e.site = 416 /\ NamedFunctions(e) = <<"g", "h">>

\* C6: the loop over self.nested[0] calling g, which pops self.nested[0],
\* is not analysed to its end without an error.
C6_SubscriptIterator ==
    ~(/\ Succeeded(1) /\ IsArrayLoop(1) /\ IterOf(1) = Sub0(SelfAttr("nested"))
      /\ Len(Fns) = 3 /\ LoopOf(1).c[3] = Block(<<CallStmt("g")>>)
      /\ Body(2) = Block(<<MemberCall(Sub0(SelfAttr("nested")), "pop", <<>>)>>))

(* Assignments.  f has the parameter p, declares v, and assigns once: at   *)
(* the top of the body, inside a loop over i, or in a then-arm that        *)
(* declares w.  Targets are names; values are literals and names.          *)
AssignTargets == {"p", "v", "i", "w", "ZERO"}
AssignValues == {IntNode(1), BoolNode(TRUE), NameNode("p"), NameNode("v")}
Assignments ==
    {AssignStmt(NameNode(t), v) : t \in AssignTargets, v \in AssignValues}
    \cup {AugAssignStmt(NameNode(t), v) : t \in AssignTargets, v \in AssignValues}
AssignBodies(a) ==
    IF a.c[1].s = "i"
    THEN {<<ForStmt(NameNode("i"), "uint256", RangeCall(<<IntNode(2)>>), <<a>>)>>}
    ELSE IF a.c[1].s = "w"
    THEN {<<IfStmt(NameNode("c"),
                   <<AnnAssignStmt(NameNode("w"), "uint256", <<IntNode(0)>>), a>>, <<>>)>>}
    ELSE {<<a>>, <<ForStmt(NameNode("i"), "uint256", RangeCall(<<IntNode(2)>>), <<a>>)>>}
AssignModules ==
    {Module(<<FunctionDef("f", internal, mutability,
                          <<Arg("p", "uint256"), Arg("c", "bool")>>, "none",
                          <<AnnAssignStmt(NameNode("v"), "uint256", <<IntNode(0)>>)>> \o body,
                          <<>>)>>) :
        internal \in BOOLEAN, mutability \in {PURE, VIEW, NONPAYABLE, PAYABLE},
        body \in UNION {AssignBodies(a) : a \in Assignments}}

SpecAssign == InitWith(AssignModules \cup SmokeModules) /\ [][Next]_vars

\* The assignment of function i, and how its target was bound.
AssignPaths(i) ==
    InSourceOrder({q \in PathSet(Fns[i].node) :
                    NodeAt(Fns[i].node, q).k \in {"Assign", "AugAssign"}})
HasOneAssign(i) == Len(AssignPaths(i)) = 1 /\ NodeAt(Fns[i].node, AssignPaths(i)[1]).c[1].k = "Name"
TheAssign(i) == NodeAt(Fns[i].node, AssignPaths(i)[1])
TargetId(i) == TheAssign(i).c[1].s
IsParameter(i) == \E k \in 1..Len(Fns[i].args) : Fns[i].args[k].name = TargetId(i)
IsLoopVariable(i) ==
    \E q \in {SubSeq(AssignPaths(i)[1], 1, k) : k \in 0..Len(AssignPaths(i)[1]) - 1} :
        NodeAt(Fns[i].node, q).k = "For" /\ NodeAt(Fns[i].node, q).c[1].s = TargetId(i)
IsModuleConstant(i) == TargetId(i) \in DOMAIN FoldedConstants
\* declared with an initializer earlier in a block that encloses the assignment
IsDeclared(i) ==
    \E q \in PathSet(Fns[i].node) :
        LET d == NodeAt(Fns[i].node, q)
        IN  /\ d.k = "AnnAssign" /\ Len(d.c) = 2 /\ d.c[1] = NameNode(TargetId(i))
            /\ IsPrefix(Parent(q), AssignPaths(i)[1])
            /\ q[Len(q)] < AssignPaths(i)[1][Len(q)]
ReadOnlyTarget(i) ==
    IsLoopVariable(i) \/ IsModuleConstant(i) \/ (IsParameter(i) /\ ~Fns[i].internal)
WritableTarget(i) == (IsParameter(i) /\ Fns[i].internal) \/ IsDeclared(i)
DeclaredType(i) == IF IsModuleConstant(i) THEN "int256" ELSE "uint256"
ValueMatches(i) ==
    \/ TheAssign(i).c[2].k = "Int"
    \/ TheAssign(i).c[2].k = "Name" /\ DeclaredType(i) = "uint256"

\* how permissive a modifiability is
Permissive == [constant |-> 0, runtime_constant |-> 1, modifiable |-> 2]
NeverRelaxed ==
    \A k \in 1..Len(scopes) :
        (k <= Len(scopes') /\ scopes'[k].id = scopes[k].id) =>
            \A v \in scopes[k].vars : \A u \in scopes'[k].vars :
                u.name = v.name =>
                    Permissive[u.modifiability] <= Permissive[v.modifiability]

Mutabilities == {PURE, VIEW, NONPAYABLE, PAYABLE}
EnvAttr(base, attr) == AttributeNode(NameNode(base), attr)
Declare(typ, value) == AnnAssignStmt(NameNode("y"), typ, <<value>>)
EnvReads ==
    {Declare("uint256", SelfAttr("n")), Declare("address", EnvAttr("msg", "sender")),
     Declare("uint256", EnvAttr("msg", "value")), Declare("Bytes", EnvAttr("msg", "data")),
     Declare("uint256", CallNode(NameNode("len"), <<EnvAttr("msg", "data")>>)),
     Declare("uint256", EnvAttr("block", "timestamp")),
     Declare("address", EnvAttr("tx", "origin")), Declare("uint256", EnvAttr("chain", "id")),
     Declare("address", NameNode("self")), Declare("uint256", NameNode("p")),
     Declare("uint256", SubscriptNode(SelfAttr("arr"), SelfAttr("n"))),
     ExprStmt(SelfCall("h", <<SelfAttr("n")>>)), ExprStmt(SelfCall("h", <<NameNode("p")>>))}
CallsOfG ==
    {ExprStmt(SelfCall("g", <<>>)), Declare("uint256", SelfCall("g", <<>>)),
     ExprStmt(SelfCall("h", <<SelfCall("g", <<>>)>>)),
     Declare("uint256", SubscriptNode(NameNode("a"), SelfCall("g", <<>>)))}
AccessModules ==
    {Module(<<FunctionDef("f", TRUE, caller, <<Arg("p", "uint256"), Arg("a", "DynArray")>>,
                          "none", <<stmt>>, <<>>),
              FunctionDef("g", TRUE, callee, <<>>, "uint256",
                          <<ReturnStmt(<<IntNode(1)>>)>>, <<>>),
              FunctionDef("h", TRUE, PURE, <<Arg("a", "uint256")>>, "none",
                          <<PassStmt>>, <<>>)>>) :
        caller \in Mutabilities, callee \in Mutabilities, stmt \in EnvReads \cup CallsOfG}

SpecAccess == InitWith(AccessModules \cup SmokeModules) /\ [][Next]_vars

\* The call of g in the one statement of function i.
GCalls(i) ==
    InSourceOrder({q \in PathSet(Fns[i].node) : NodeAt(Fns[i].node, q) = SelfCall("g", <<>>)})
CallsG(i) == Fns[i].name = "f" /\ Len(Fns) = 3 /\ Len(GCalls(i)) = 1
IsBareCall(i) == Body(i).c[1] = ExprStmt(SelfCall("g", <<>>))
MatrixForbids(caller, callee) ==
    \/ StateMutability[callee] > StateMutability[VIEW] /\ StateMutability[caller] <= StateMutability[VIEW]
    \/ caller = PURE /\ callee # PURE
CallRefused(i) == \E e \in ErrorsOf(i) : e.kind = "StateAccessViolation"

\* C8: for every pair of caller and callee mutability, a call of a contract
\* function anywhere in the caller's body, bare or nested in an expression,
\* fails with StateAccessViolation iff (callee > VIEW and caller <= VIEW) or
\* (caller = PURE and callee # PURE).
C8_CallMatrix ==
    \A i \in 1..Len(Fns) :
        (Attempted(i) /\ CallsG(i)) =>
            /\ CallRefused(i) <=> MatrixForbids(Fns[i].mutability, Fns[2].mutability)
            /\ ~CallRefused(i) => Succeeded(i)

\* C8, the part the code keeps: the matrix decides a call that is a bare
\* statement (lines 321-336); a nested call is refused only when the caller
\* is pure and the callee is not (line 171).
C8_BareStatement ==
    \A i \in 1..Len(Fns) :
        (Attempted(i) /\ CallsG(i)) =>
            /\ IsBareCall(i) =>
                    (CallRefused(i) <=> MatrixForbids(Fns[i].mutability, Fns[2].mutability))
            /\ ~IsBareCall(i) =>
                    (CallRefused(i) <=> (Fns[i].mutability = PURE /\ Fns[2].mutability # PURE))
            /\ ~CallRefused(i) => Succeeded(i)

\* C8 witness: a view function's bare call of a nonpayable function was
\* refused at line 325.
C8_Witness ==
    /\ Attempted(1) /\ CallsG(1) /\ IsBareCall(1)
    /\ Fns[1].mutability = VIEW /\ Fns[2].mutability = NONPAYABLE
    /\ FailedAt(1, "StateAccessViolation", 325)

\* C8: the view function f with `y: uint256 = self.g()`, g nonpayable, is
\* not analysed to its end without an error.
C8_NestedCallFromView ==
    ~(/\ Succeeded(1) /\ CallsG(1) /\ Body(1).c[1] = Declare("uint256", SelfCall("g", <<>>))
      /\ Fns[1].mutability = VIEW /\ Fns[2].mutability = NONPAYABLE)

\* The environment reads in the one statement of function i.
ReadsEnv(i) == Fns[i].name = "f" /\ Len(Fns) = 3
EnvNames == {"self", "msg", "block", "tx", "chain"}
IsEnvAccess(n) == n.k = "Attribute" /\ n.c[1].k = "Name" /\ n.c[1].s \in EnvNames
IsPureFunctionAccess(n) ==
    n.c[1] = NameNode("self") /\ HasFn(n.s) /\ FnOf(n.s).mutability = PURE
IsBareSelf(root, q) ==
    NodeAt(root, q) = NameNode("self") /\ NodeAt(root, Parent(q)).k # "Attribute"
ForbiddenInPure(i) ==
    {q \in PathSet(Body(i)) :
        \/ IsBareSelf(Body(i), q)
        \/ IsEnvAccess(NodeAt(Body(i), q)) /\ ~IsPureFunctionAccess(NodeAt(Body(i), q))}
ReadsMsgValue(i) == \E q \in ForbiddenInPure(i) : NodeAt(Body(i), q) = EnvAttr("msg", "value")
ReadsLooseMsgData(i) ==
    \E q \in ForbiddenInPure(i) :
        /\ NodeAt(Body(i), q) = EnvAttr("msg", "data")
        /\ ~(/\ NodeAt(Body(i), Parent(q)).k = "Call"
             /\ FuncId(NodeAt(Body(i), Parent(q))) \in {"slice", "len", "raw_call"})
PureChecks == {171, 179}

MaxFns == 3

FnNames == <<"f", "g", "h">>
Shape(ret, body, kwargs) == [ret |-> ret, body |-> body, kwargs |-> kwargs]
PassingShapes ==
    {Shape("none", <<PassStmt>>, <<>>),
     Shape("int256",
           <<AnnAssignStmt(NameNode("v"), "int256", <<IntNode(1)>>),
             IfStmt(NameNode("c"), <<AssignStmt(NameNode("v"), NameNode("k"))>>, <<>>),
             ReturnStmt(<<NameNode("v")>>)>>,
           <<Kwarg("k", "int256", NameNode("TWO"))>>),
     Shape("none", <<CallStmt("z"), AnnAssignStmt(NameNode("w"), "uint256",
                                                  <<SubscriptNode(SelfAttr("arr"), IntNode(0))>>)>>,
           <<>>)}
FailingShapes ==
    {Shape("uint256", <<CallStmt("z")>>, <<>>),
     Shape("none",
           <<ForStmt(NameNode("i"), "uint256", RangeCall(<<IntNode(2)>>),
                     <<IfStmt(NameNode("c"), <<AssignStmt(NameNode("i"), IntNode(1))>>, <<>>)>>)>>,
           <<>>)}
\* a loop over self.arr that calls a function the module does not define
CrashingShapes ==
    {Shape("none",
           <<ForStmt(NameNode("x"), "uint256", SelfAttr("arr"), <<CallStmt("nope")>>)>>, <<>>)}
Shapes == PassingShapes \cup FailingShapes \cup CrashingShapes
Shaped(name, sh) ==
    FunctionDef(name, TRUE, NONPAYABLE, <<Arg("c", "bool")>>, sh.ret, sh.body, sh.kwargs)
Helper == FunctionDef("z", TRUE, NONPAYABLE, <<>>, "none", <<PassStmt>>, <<>>)
DriverModules ==
    {Module([i \in 1..Len(shs) |-> Shaped(FnNames[i], shs[i])] \o <<Helper>>) :
        shs \in UNION {[1..k -> Shapes] : k \in 1..MaxFns}}

Spec == InitWith(DriverModules \cup SmokeModules) /\ [][Next]_vars

\* What the input says about each function, without running the analysis.
ShapeOf(i) ==
    Shape(Fns[i].ret, Body(i).c,
          [k \in 1..Len(Fns[i].kwargs) |->
                Kwarg(Fns[i].kwargs[k].name, Fns[i].kwargs[k].typ, Fns[i].node.c[1 + k])])
IsDriverModule == Fns[Len(Fns)] = Helper /\ \A i \in 1..Len(Fns) - 1 : ShapeOf(i) \in Shapes
MustFail(i) == i < Len(Fns) /\ ShapeOf(i) \in FailingShapes \cup CrashingShapes
MustCrash(i) == i < Len(Fns) /\ ShapeOf(i) \in CrashingShapes
FailingFunctions == SelectSeq([i \in 1..Len(Fns) |-> i], MustFail)
Reported == [k \in 1..Len(err_list) |-> err_list[k].fn]

\* C1: validate_functions analyses every function exactly once whatever
\* fails before it, raises nothing before the last function was attempted,
\* and then raises one aggregate with exactly one entry per failing
\* function, in module order; it returns normally iff no function failed.
C1_Isolation ==
    /\ \A i \in 1..Len(Fns) : attempts[i] <= 1
    /\ (pc = "done" /\ IsDriverModule) =>
            /\ \A i \in 1..Len(Fns) : attempts[i] = 1
            /\ Reported = FailingFunctions
            /\ outcome = (IF FailingFunctions = <<>> THEN "returned" ELSE "raised")

\* C1, the part the code keeps: failures that are VyperExceptions are
\* isolated and aggregated as stated; the first function whose analysis
\* raises anything else ends the pass there, with the later functions
\* never attempted.
FirstCrash == CHOOSE i \in 1..Len(Fns) : MustCrash(i) /\ \A j \in 1..(i - 1) : ~MustCrash(j)
C1_VyperExceptions ==
    /\ \A i \in 1..Len(Fns) : attempts[i] <= 1
    /\ (pc = "done" /\ IsDriverModule) =>
            IF \E i \in 1..Len(Fns) : MustCrash(i)
            THEN /\ outcome = "crashed" /\ fi = FirstCrash
                 /\ \A i \in 1..Len(Fns) : attempts[i] = (IF i <= FirstCrash THEN 1 ELSE 0)
                 /\ Reported = SelectSeq(FailingFunctions, LAMBDA i : i < FirstCrash)
            ELSE /\ \A i \in 1..Len(Fns) : attempts[i] = 1
                 /\ Reported = FailingFunctions
                 /\ outcome = (IF FailingFunctions = <<>> THEN "returned" ELSE "raised")

\* C1 witness: a module whose first and third functions fail and whose
\* second passes ended with both failures reported, in that order.
C1_Witness ==
    /\ pc = "done" /\ IsDriverModule /\ Len(Fns) = 4
    /\ outcome = "raised" /\ Reported = <<1, 3>>

AnnotFirst ==
    {AnnAssignStmt(NameNode("y"), "uint256", <<Sub0(Sub0(SelfAttr("nested")))>>),
     AnnAssignStmt(NameNode("y"), "uint256", <<SubscriptNode(NameNode("a"), SelfAttr("n"))>>),
     AnnAssignStmt(NameNode("y"), "Rec",
                   <<CallNode(NameNode("Rec"), <<DictNode("items", SelfAttr("brr"))>>)>>),
     AnnAssignStmt(NameNode("y"), "int256", <<NameNode("TWO")>>),
     MemberCall(SelfAttr("arr"), "append", <<CallNode(NameNode("len"), <<NameNode("a")>>)>>),
     ExprStmt(SelfCall("g", <<IntNode(1)>>)),
     AnnAssignStmt(NameNode("y"), "uint256", <<SelfCall("h", <<>>)>>),
     ForStmt(NameNode("i"), "uint256", RangeCall(<<IntNode(2)>>), <<PassStmt>>),
     ForStmt(NameNode("x"), "uint256", SelfAttr("arr"), <<PassStmt>>),
     IfStmt(NameNode("c"), <<AssignStmt(SelfAttr("n"), IntNode(1))>>, <<PassStmt>>)}
AnnotSecond ==
    {PassStmt, Node("Raise", "", 0, <<StrNode("reason")>>),
     Node("Raise", "", 0, <<NameNode("s")>>), Node("Raise", "", 0, <<NameNode("UNREACHABLE")>>),
     RaiseStmt, AssignStmt(SelfAttr("n"), Sub0(SelfAttr("arr"))),
     AnnAssignStmt(NameNode("z"), "uint256", <<BoolNode(TRUE)>>)}
AnnotModules ==
    {Module(<<FunctionDef("f", TRUE, NONPAYABLE,
                          <<Arg("c", "bool"), Arg("a", "DynArray"), Arg("s", "String")>>,
                          "none", <<s1, s2>>, kwargs),
              FunctionDef("g", TRUE, NONPAYABLE, <<Arg("v", "uint256")>>, "none",
                          <<PassStmt>>, <<>>),
              FunctionDef("h", TRUE, VIEW, <<>>, "uint256",
                          <<ReturnStmt(<<SelfAttr("n")>>)>>, <<>>)>>) :
        s1 \in AnnotFirst, s2 \in AnnotSecond,
        kwargs \in {<<>>, <<Kwarg("k", "int256", NameNode("TWO"))>>}}

SpecAnnot == InitWith(AnnotModules \cup SmokeModules) /\ [][Next]_vars

\* The expression nodes of function i, body and keyword defaults.
ExprKinds == {"Int", "Bool", "Str", "Name", "Attribute", "Subscript", "Call", "Dict"}
ExprPaths(i) ==
    {q \in PathSet(Fns[i].node) :
        NodeAt(Fns[i].node, q).k \in ExprKinds}
\* the types node q of function i carries, and how often this pass wrote one
TypesOf(i, q) == {a.typ : a \in {b \in ann : b.fn = i /\ b.p = q}}
WriteCount(i, q) == Cardinality({j \in 1..Len(writes) : writes[j].fn = i /\ writes[j].p = q})
TypedOnce(i, q) == Cardinality(TypesOf(i, q)) = 1 /\ WriteCount(i, q) = 1

\* C11 as stated: after a function's analysis succeeds every expression node
\* of its body and keyword defaults carries exactly one type, written
\* exactly once in the pass, and so does the folded form of every node that
\* has one; the argument node of a struct constructor call and a revert
\* reason included.
C11_Annotated ==
    \A i \in 1..Len(Fns) :
        Succeeded(i) =>
            \A q \in ExprPaths(i) :
                /\ TypedOnce(i, q)
                /\ has_folded_value(NodeAt(Fns[i].node, q)) => TypedOnce(i, FoldedPath(q))

\* The expression nodes no handler visits: the Dict handed to a struct
\* constructor (lines 588-589 visit its values), the range call of a loop
\* and the name `range` (lines 436-440 visit its arguments), and the revert
\* reason UNREACHABLE (line 250).
Unvisited(i) ==
    {q \in ExprPaths(i) :
        LET root == Fns[i].node
            n == NodeAt(root, q)
            parent == NodeAt(root, Parent(q))
        IN  \/ n.k = "Dict" /\ parent.k = "Call" /\ parent.c[1].s \in DOMAIN StructMembers
            \/ n.k = "Call" /\ FuncId(n) = "range" /\ parent.k = "For"
            \/ /\ n = NameNode("range") /\ parent.k = "Call" /\ Len(q) > 1
               /\ NodeAt(root, Parent(Parent(q))).k = "For"
            \/ n = NameNode("UNREACHABLE") /\ parent.k = "Raise"}

\* C11, the part the code keeps: after a function's analysis succeeds every
\* expression node a handler visits carries exactly one type written exactly
\* once, folded forms included, and the nodes no handler visits carry none.
C11_Visited ==
    \A i \in 1..Len(Fns) :
        Succeeded(i) =>
            /\ \A q \in ExprPaths(i) \ Unvisited(i) :
                /\ TypedOnce(i, q)
                /\ has_folded_value(NodeAt(Fns[i].node, q)) => TypedOnce(i, FoldedPath(q))
            /\ \A q \in Unvisited(i) : TypesOf(i, q) = {} /\ WriteCount(i, q) = 0

\* C11, consistency: a type written in a step that raises nothing is one the
\* node can have in the namespace the step leaves, or, for a call that is a
\* whole statement, the type of the called function (line 353).
WrittenNode(a) ==
    IF a.p[Len(a.p)] = 0
    THEN get_folded_value(NodeAt(Fns[a.fn].node, Parent(a.p)))
    ELSE NodeAt(Fns[a.fn].node, a.p)
IsStatementCall(a) ==
    /\ a.p[Len(a.p)] # 0
    /\ NodeAt(Fns[a.fn].node, Parent(a.p)).k = "Expr"
    /\ a.typ = TypeOf(WrittenNode(a).c[1], scopes')
ConsistentWrites ==
    exc' = NoErr =>
        \A a \in ann' \ ann :
            \/ a.typ \in PossibleTypes(WrittenNode(a), scopes')
            \/ IsStatementCall(a)
C11_Consistent == [][ConsistentWrites]_vars

\* C11 witness: f declared y: Rec = Rec({items: self.brr}) and passed; the
\* value self.brr carries its type and the Dict that holds it carries none.
C11_Witness ==
    /\ Succeeded(1)
    /\ Body(1).c[1] = AnnAssignStmt(NameNode("y"), "Rec",
                        <<CallNode(NameNode("Rec"), <<DictNode("items", SelfAttr("brr"))>>)>>)
    /\ TypesOf(1, <<1, 1, 2>>) = {T("Rec")}
    /\ TypesOf(1, <<1, 1, 2, 2, 1>>) = {T("DynArray")}
    /\ TypesOf(1, <<1, 1, 2, 2>>) = {}

\* The statement sequences of function i, and the sequences the claim calls
\* terminating: one of whose own statements is a return/revert, or a
\* conditional with an else-arm whose two arms are terminating.
BlockPaths(i) ==
    {q \in PathSet(Fns[i].node) :
        NodeAt(Fns[i].node, q).k = "Block"}
SeqTerminates(block) == \E j \in 1..Len(block.c) : Proven(block.c[j])

\* every return/revert of function i lies in a loop body or in a conditional
\* without else-arm, and there is one
Guards(root, q) ==
    {a \in {SubSeq(q, 1, k) : k \in 0..(Len(q) - 1)} :
        \/ NodeAt(root, a).k = "For"
        \/ NodeAt(root, a).k = "If" /\ NodeAt(root, a).c[3].c = <<>>}
Termini(i) ==
    {q \in PathSet(Fns[i].node) :
        is_terminus(NodeAt(Fns[i].node, q))}
OnlyGuardedReturns(i) ==
    Termini(i) # {} /\ \A q \in Termini(i) : Guards(Fns[i].node, q) # {}

\* C12 as stated: find_terminating_node returns a terminus for a sequence
\* iff the sequence is terminating, and a function with a declared return
\* type whose returns all lie in loop bodies or else-less conditionals fails
\* with the missing-return error (line 212).
C12_Original ==
    \A i \in 1..Len(Fns) :
        Attempted(i) =>
            /\ \A bp \in BlockPaths(i) :
                    find_terminating_node(Fns[i].node, bp).ret # <<>>
                        <=> SeqTerminates(NodeAt(Fns[i].node, bp))
            /\ (HasReturnType(i) /\ OnlyGuardedReturns(i)) =>
                    FailedAt(i, "FunctionDeclarationException", 212)

\* C12 (amended): for every statement sequence on which the scan does not
\* raise, find_terminating_node returns a terminus iff the sequence is
\* terminating, and the terminus it returns is a return/revert in the last
\* statement of the sequence; it raises (line 76) only on a sequence that
\* holds a statement after a terminus, at some depth.  A sequence of loops
\* and else-less conditionals is never terminating, so a function with a
\* declared return type whose returns all lie in loop bodies or else-less
\* conditionals never passes: it fails with the missing-return error (line
\* 212) when no block holds a statement after a terminus, and with the
\* unreachable-code error (line 76) when one does.
C12_Terminus ==
    \A i \in 1..Len(Fns) :
        Attempted(i) =>
            /\ \A bp \in BlockPaths(i) :
                    LET found == find_terminating_node(Fns[i].node, bp)
                        block == NodeAt(Fns[i].node, bp)
                    IN  IF found.raised
                        THEN DeadStatements(block) # {} /\ found.ret = <<>>
                        ELSE /\ found.ret # <<>> <=> SeqTerminates(block)
                             /\ found.ret # <<>> =>
                                    /\ is_terminus(NodeAt(Fns[i].node, found.ret[1]))
                                    /\ IsPrefix(bp \o <<Len(block.c)>>, found.ret[1])
            /\ (HasReturnType(i) /\ OnlyGuardedReturns(i)) =>
                    /\ ~Succeeded(i)
                    /\ IF DeadStatements(Body(i)) = {}
                       THEN FailedAt(i, "FunctionDeclarationException", 212)
                       ELSE FailedAt(i, "StructureException", 76)

\* C12 witness: a function with a return type whose body is a loop that
\* returns in both arms of a conditional failed with the missing-return
\* error.
C12_Witness ==
    /\ Attempted(1) /\ HasReturnType(1) /\ OnlyGuardedReturns(1)
    /\ Len(Body(1).c) = 1 /\ Body(1).c[1].k = "For"
    /\ SeqTerminates(Body(1).c[1].c[3])
    /\ FailedAt(1, "FunctionDeclarationException", 212)

(* Loops whose body reads the iterated array.  f iterates E with one       *)
(* statement in the loop body that reads E, writes E, or does neither; g   *)
(* takes the value read.  Every statement is well typed.                   *)
ReadsOf(X, t) ==
    CASE t = "DynArray" ->
            {AssignStmt(SelfAttr("brr"), X),
             AnnAssignStmt(NameNode("y"), "uint256", <<Sub0(X)>>),
             AnnAssignStmt(NameNode("y"), "uint256", <<CallNode(NameNode("len"), <<X>>)>>),
             MemberCall(SelfAttr("brr"), "append", <<Sub0(X)>>),
             ExprStmt(SelfCall("g", <<Sub0(X)>>)),
             AugAssignStmt(SelfAttr("n"), Sub0(X)),
             AssignStmt(SubscriptNode(SelfAttr("brr"), Sub0(X)), IntNode(1)),
             MemberCall(SubscriptNode(SelfAttr("nested"), Sub0(X)), "pop", <<>>)}
      [] t = "DynArray2" ->
            {AnnAssignStmt(NameNode("y"), "DynArray", <<Sub0(X)>>),
             AnnAssignStmt(NameNode("y"), "uint256", <<Sub0(Sub0(X))>>),
             AssignStmt(SelfAttr("brr"), Sub0(X)),
             ExprStmt(SelfCall("g", <<Sub0(Sub0(X))>>)),
             AssignStmt(SubscriptNode(SelfAttr("brr"), Sub0(Sub0(X))), IntNode(1))}
      [] t = "DynArrayS" ->
            {AnnAssignStmt(NameNode("y"), "DynArray", <<AttributeNode(Sub0(X), "items")>>),
             AnnAssignStmt(NameNode("y"), "uint256", <<Sub0(AttributeNode(Sub0(X), "items"))>>),
             AssignStmt(SubscriptNode(SelfAttr("brr"), Sub0(AttributeNode(Sub0(X), "items"))),
                        IntNode(1))}
ReadIterExprs == {it \in IterExprs : it.e.k \in {"Name", "Attribute"}}
ReadBodies(it) ==
    UNION {Nestings(stmt) :
           stmt \in ReadsOf(it.e, it.t) \cup WritesTo(it.e, it.t) \cup {PassStmt}}
ReadModules ==
    UNION {{Module(<<LoopOver(it, body),
                     FunctionDef("g", TRUE, NONPAYABLE, <<Arg("v", "uint256")>>, "none",
                                 <<PassStmt>>, <<>>)>>) : body \in ReadBodies(it)}
           : it \in ReadIterExprs}

SpecRead == InitWith(ReadModules \cup SmokeModules) /\ [][Next]_vars

\* The sub-expressions of the loop body of function i equal to the iterated
\* expression, as paths below the loop.
EqualToIterated(i) ==
    {q \in PathSet(LoopOf(i)) :
        /\ IsPrefix(<<3>>, q)
        /\ compare_nodes(NodeAt(LoopOf(i), q), IterOf(i))}
ReadLoop(i) ==
    /\ IsArrayLoop(i) /\ IterOf(i).k \in {"Name", "Attribute"}
    /\ EqualToIterated(i) # {}
    /\ ~Mutates(LoopOf(i).c[3], IterOf(i))

\* C13 as stated: a loop whose body only reads the iterated expression E
\* (no assignment to E or to an access rooted at E, no append/pop/extend on
\* E or on an access rooted at E) passes _check_iterator_modification: it
\* returns None and line 384 does not raise.
C13_ReadOnly ==
    \A i \in 1..Len(Fns) :
        ReadLoop(i) =>
            /\ _check_iterator_modification(IterOf(i), LoopOf(i)) = <<>>
            /\ ~FailedAt(i, "ImmutableViolation", 384)

\* the sub-expression lies in the target of an assignment, or in the
\* receiver of an append/pop/extend, in its index expressions included
InWrittenExpression(root, q) ==
    \E a \in {SubSeq(q, 1, k) : k \in 0..(Len(q) - 1)} :
        \/ /\ NodeAt(root, a).k \in {"Assign", "AugAssign"}
           /\ IsPrefix(a \o <<1>>, q)
        \/ /\ NodeAt(root, a).k = "Attribute"
           /\ NodeAt(root, a).s \in {"append", "pop", "extend"}
           /\ IsPrefix(a \o <<1>>, q)

\* C13, the part the code keeps: a loop whose body holds E only outside of
\* assignment targets and of the receivers of append/pop/extend (on the
\* right-hand side of an assignment or declaration, as a call argument, as
\* the base of an index or attribute read there) passes the check and the
\* function is analysed to its end.
C13_ReadsOutsideTargets ==
    \A i \in 1..Len(Fns) :
        (ReadLoop(i) /\ \A q \in EqualToIterated(i) : ~InWrittenExpression(LoopOf(i), q)) =>
            /\ _check_iterator_modification(IterOf(i), LoopOf(i)) = <<>>
            /\ Attempted(i) => Succeeded(i)

\* C13 witness: the loop over self.arr whose body is
\* self.brr[self.arr[0]] = 1 was refused at line 384 at the self.arr of the
\* index expression.
C13_Witness ==
    /\ Attempted(1) /\ ReadLoop(1) /\ IterOf(1) = SelfAttr("arr")
    /\ LoopOf(1).c[3] =
            Block(<<AssignStmt(SubscriptNode(SelfAttr("brr"), Sub0(SelfAttr("arr"))), IntNode(1))>>)
    /\ \E e \in ErrorsOf(1) :
            /\ e.kind = "ImmutableViolation" /\ e.site = 384
            /\ e.at = LoopPath \o <<3, 1, 1, 2, 1, 1>>

\* C13 witness of the part kept: the loop over self.recs that reads
\* self.recs[0].items into y was analysed to its end.
C13_ReadWitness ==
    /\ Succeeded(1) /\ ReadLoop(1) /\ IterOf(1) = SelfAttr("recs")
    /\ LoopOf(1).c[3] =
            Block(<<AnnAssignStmt(NameNode("y"), "DynArray",
                                  <<AttributeNode(Sub0(SelfAttr("recs")), "items")>>)>>)

(* Functions for the order of the phases.  The body is one to MaxTop       *)
(* statements: an assignment to self.n that is well typed or not, a        *)
(* declaration that is not, a return, or one of these in a conditional or  *)
(* a loop; the function has a return type or not, and a keyword parameter  *)
(* whose default is well typed or not.                                     *)
GoodStmt == AssignStmt(SelfAttr("n"), IntNode(1))
BadAssign == AssignStmt(SelfAttr("n"), BoolNode(TRUE))
BadDeclare == AnnAssignStmt(NameNode("z"), "uint256", <<BoolNode(TRUE)>>)
OrderSmall(ret) == {GoodStmt, BadAssign, BadDeclare, TermReturn(ret)}
OrderFirst(ret) ==
    OrderSmall(ret)
    \cup {TermIf(<<a>>, <<b>>) : a \in OrderSmall(ret), b \in {GoodStmt, BadAssign, TermReturn(ret)}}
    \cup {TermFor(<<a>>) : a \in OrderSmall(ret)}
OrderBodies(ret) ==
    {<<st>> \o rest : st \in OrderFirst(ret), rest \in SeqsUpTo(OrderSmall(ret), MaxTop - 1)}
OrderKwargs ==
    {<<>>, <<Kwarg("k", "uint256", IntNode(1))>>, <<Kwarg("k", "uint256", BoolNode(TRUE))>>}
OrderModules ==
    UNION {{Module(<<FunctionDef("f", TRUE, NONPAYABLE, <<Arg("c", "bool")>>, ret, body, kwargs)>>) :
                body \in OrderBodies(ret), kwargs \in OrderKwargs}
           : ret \in {"none", "uint256"}}

SpecOrder == InitWith(OrderModules \cup SmokeModules) /\ [][Next]_vars

\* textual order of two paths
RECURSIVE Before(_, _)
Before(q, r) ==
    IF q = <<>> THEN r # <<>>
    ELSE IF r = <<>> THEN FALSE
    ELSE IF Head(q) = Head(r) THEN Before(Tail(q), Tail(r))
    ELSE Head(q) < Head(r)

\* What the text of function i says about each step, without running it.
IllTyped(n) ==
    \/ n.k = "AnnAssign" /\ n.s = "uint256" /\ Len(n.c) = 2 /\ n.c[2].k = "Bool"
    \/ n.k = "Assign" /\ n.c[1] = SelfAttr("n") /\ n.c[2].k = "Bool"
IllTypedStatements(i) ==
    InSourceOrder({q \in PathSet(Fns[i].node) : IllTyped(NodeAt(Fns[i].node, q))})
FailsTermination(i) ==
    \/ DeadStatements(Body(i)) # {}
    \/ HasReturnType(i) /\ ~SeqTerminates(Body(i))
IllTypedDefault(i) ==
    \E k \in 1..Len(Fns[i].kwargs) :
        Fns[i].kwargs[k].typ = "uint256" /\ Fns[i].node.c[1 + k].k = "Bool"
OrderFunction(i) == i = 1 /\ module \in OrderModules

\* the assignments to self.n that precede path q in the text, and the
\* annotations this pass wrote for function i
AssignsBefore(i, q) ==
    {r \in PathSet(Fns[i].node) :
        NodeAt(Fns[i].node, r) = GoodStmt /\ Before(r, q)}
WrittenPaths(i) == {writes[j].p : j \in {k \in 1..Len(writes) : writes[k].fn = i}}

\* the step that fails first and the error it raises
FirstFailure(i) ==
    IF IllTypedStatements(i) # <<>>
    THEN LET q == IllTypedStatements(i)[1]
         IN  [phase |-> "body", kind |-> "TypeMismatch",
              site |-> IF NodeAt(Fns[i].node, q).k = "Assign" THEN 279 ELSE 238,
              at |-> q \o <<2>>]
    ELSE IF DeadStatements(Body(i)) # {}
    THEN [phase |-> "term", kind |-> "StructureException", site |-> 76, at |-> <<>>]
    ELSE IF FailsTermination(i)
    THEN [phase |-> "term", kind |-> "FunctionDeclarationException", site |-> 212, at |-> <<>>]
    ELSE IF IllTypedDefault(i)
    THEN [phase |-> "kwargs", kind |-> "TypeMismatch", site |-> 648, at |-> <<2>>]
    ELSE [phase |-> "none", kind |-> "none", site |-> 0, at |-> <<>>]

\* the statements still to visit are in textual order, the terminator scan
\* and the keyword defaults come after them, in this order
PhaseOrder ==
    \A j \in 1..Len(tasks) : \A k \in (j + 1)..Len(tasks) :
        /\ tasks[j].op = "kwargs" => FALSE
        /\ tasks[j].op = "term" => tasks[k].op = "kwargs"
        /\ (tasks[j].op = "stmt" /\ tasks[k].op = "stmt") => Before(tasks[j].p, tasks[k].p)
\* while the function is analysed its parameters, positional and keyword,
\* are bound with their types
ParametersBound ==
    (pc = "body" /\ exc = NoErr) =>
        \A k \in 1..Len(CurFn.args \o CurFn.kwargs) :
            Lookup(scopes, (CurFn.args \o CurFn.kwargs)[k].name).typ
                = (CurFn.args \o CurFn.kwargs)[k].typ
\* a statement is visited before every statement still to visit
TextualOrder ==
    (Running("stmt") /\ tasks' # tasks) =>
        \A k \in 1..Len(tasks') : tasks'[k].op = "stmt" => Before(Head(tasks).p, tasks'[k].p)
\* an exception in flight ends the function in the next step, which visits
\* nothing and records the exception
AbortsAtOnce ==
    exc # NoErr =>
        /\ tasks' = <<>> /\ exc' = NoErr
        /\ ann' = ann /\ writes' = writes /\ called' = called
        /\ Caught(exc) => err_list' = Append(err_list, [fn |-> fi, e |-> exc])

\* C14: within a function the parameters are bound, then the statements are
\* visited in textual order, then the terminator scan runs, then the
\* keyword defaults are checked; the first failing step ends the function:
\* no later statement or phase runs, and the one error recorded for the
\* function is that of the earliest failing step.  A function with an
\* ill-typed statement and a missing return or an unreachable statement
\* reports the statement.
C14_PhaseOrder ==
    /\ [](/\ PhaseOrder
          /\ ParametersBound
          /\ \A i \in 1..Len(Fns) :
                /\ Cardinality({k \in 1..Len(err_list) : err_list[k].fn = i}) <= 1
                /\ (Attempted(i) /\ OrderFunction(i)) =>
                    LET failure == FirstFailure(i)
                    IN  /\ Succeeded(i) <=> failure.phase = "none"
                        /\ failure.phase # "none" =>
                                \E e \in ErrorsOf(i) :
                                    /\ e.kind = failure.kind /\ e.site = failure.site
                                    /\ failure.phase = "body" => e.at = failure.at
                        /\ failure.phase = "body" =>
                                /\ \A q \in WrittenPaths(i) : Before(q, failure.at)
                                /\ \A r \in AssignsBefore(i, failure.at) :
                                        r \o <<1>> \in WrittenPaths(i)
                        /\ failure.phase = "term" =>
                                /\ \A q \in WrittenPaths(i) : q[1] = 1
                                /\ \A r \in AssignsBefore(i, <<2>>) : r \o <<1>> \in WrittenPaths(i)
                        /\ (failure.phase \in {"kwargs", "none"} /\ Fns[i].kwargs # <<>>) =>
                                (<<2>> \in WrittenPaths(i) <=> failure.phase = "none"))
    /\ [][TextualOrder]_vars
    /\ [][AbortsAtOnce]_vars

\* C14 witness: a function with a return type whose body is a return
\* followed by an ill-typed declaration, and whose keyword default is ill
\* typed too, reported the declaration alone.
C14_Witness ==
    /\ Attempted(1) /\ OrderFunction(1) /\ HasReturnType(1)
    /\ Body(1).c = <<TermReturn("uint256"), BadDeclare>>
    /\ IllTypedDefault(1) /\ DeadStatements(Body(1)) # {}
    /\ ErrorsOf(1) = {Err("TypeMismatch", 238, <<1, 2, 2>>, <<>>)}
    /\ WrittenPaths(1) = {<<1, 1, 1>>}

(* Functions for the scopes.  f declares names in a then-arm, in a loop    *)
(* body or at the top of its body and reads names in the else-arm, after   *)
(* the block or in a nested block; some bodies fail or crash inside nested *)
(* blocks.  g, analysed next, reads or declares the names of f.            *)
DeclareName(name) == AnnAssignStmt(NameNode(name), "uint256", <<IntNode(1)>>)
UseName(name) == AssignStmt(SelfAttr("n"), NameNode(name))
ScopeBodies ==
    {<<TermIf(<<DeclareName("w")>>, <<UseName("w")>>)>>,
     <<TermIf(<<DeclareName("w")>>, <<>>), UseName("w")>>,
     <<TermIf(<<DeclareName("w"), UseName("w")>>, <<>>)>>,
     <<TermIf(<<DeclareName("w")>>, <<DeclareName("w")>>), DeclareName("w")>>,
     <<TermFor(<<DeclareName("w")>>), UseName("w")>>,
     <<TermFor(<<DeclareName("w")>>), UseName("i")>>,
     <<TermFor(<<UseName("i")>>)>>,
     <<TermFor(<<DeclareName("w")>>), TermFor(<<DeclareName("w")>>)>>,
     <<DeclareName("v"), TermIf(<<UseName("v")>>, <<TermFor(<<UseName("v")>>)>>)>>,
     <<TermIf(<<TermFor(<<BadAssign>>)>>, <<>>)>>,
     <<TermFor(<<TermIf(<<DeclareName("w")>>, <<BadAssign>>)>>)>>,
     <<TermIf(<<ForStmt(NameNode("x"), "uint256", SelfAttr("arr"), <<CallStmt("nope")>>)>>, <<>>)>>,
     <<UseName("p")>>}
NextBodies ==
    {<<UseName("p")>>, <<UseName("v")>>, <<UseName("i")>>, <<UseName("w")>>,
     <<DeclareName("v"), DeclareName("w"), DeclareName("p")>>, <<UseName("q")>>}
ScopeModules ==
    {Module(<<FunctionDef("f", TRUE, NONPAYABLE, <<Arg("p", "uint256"), Arg("c", "bool")>>,
                          "none", body, <<>>),
              FunctionDef("g", TRUE, NONPAYABLE, <<Arg("q", "uint256")>>, "none", next, <<>>)>>) :
        body \in ScopeBodies, next \in NextBodies}

SpecScope == InitWith(ScopeModules \cup SmokeModules) /\ [][Next]_vars

\* The block the analysis is in: that of the statement to visit next, or
\* the one whose end comes next.
CurrentBlock ==
    IF tasks = <<>> \/ Head(tasks).op \in {"term", "kwargs"} THEN <<1>>
    ELSE IF Head(tasks).op = "stmt" THEN Parent(Head(tasks).p)
    ELSE IF Head(tasks).op = "else" THEN Head(tasks).p \o <<2>>
    ELSE Head(tasks).p \o <<3>>

\* The names the text of function i puts in scope in block bp: its
\* parameters, the variables declared in bp or in a block around it, and
\* the variables of the loops around it.
ParameterNames(i) ==
    {(Fns[i].args \o Fns[i].kwargs)[k].name : k \in 1..Len(Fns[i].args \o Fns[i].kwargs)}
DeclaredAround(i, bp) ==
    {NodeAt(Fns[i].node, q).c[1].s :
        q \in {r \in PathSet(Fns[i].node) :
                \/ /\ NodeAt(Fns[i].node, r).k = "AnnAssign"
                   /\ IsPrefix(Parent(r), bp)
                \/ /\ NodeAt(Fns[i].node, r).k = "For"
                   /\ IsPrefix(r \o <<3>>, bp)}}
\* the names bound above the module's frame
VisibleNames == UNION {{v.name : v \in scopes[k].vars} : k \in 2..Len(scopes)}

\* a read of a name that the text does not put in scope there
ReadsOutOfScope(i) ==
    \E r \in PathSet(Fns[i].node) :
        LET n == NodeAt(Fns[i].node, r)
        IN  /\ n.k = "Assign" /\ n.c[2].k = "Name"
            /\ n.c[2].s \notin ParameterNames(i)
            /\ \A q \in PathSet(Fns[i].node) :
                    LET d == NodeAt(Fns[i].node, q)
                    IN  ~ \/ /\ d.k = "AnnAssign" /\ d.c[1].s = n.c[2].s
                             /\ IsPrefix(Parent(q), r) /\ Before(q, r)
                          \/ /\ d.k = "For" /\ d.c[1].s = n.c[2].s
                             /\ IsPrefix(q \o <<3>>, r)
FailsOtherwise(i) ==
    \E j \in PathSet(Fns[i].node) :
        NodeAt(Fns[i].node, j) \in {BadAssign, CallStmt("nope")}
ScopeFunction(i) == module \in ScopeModules

\* every function gets a frame of its own, holding its parameters
FreshFrame ==
    (pc = "idle" /\ pc' = "body") =>
        /\ Len(scopes') = Len(scopes) + 1
        /\ \A k \in 1..Len(scopes) : scopes'[k] = scopes[k] /\ scopes[k].id # scopes'[Len(scopes')].id
        /\ {v.name : v \in scopes'[Len(scopes')].vars} = ParameterNames(fi)

\* C15: the frames are balanced on every exit path.  Between functions and
\* after validate_functions ended, by return, by raise or by an exception
\* that is not caught, the namespace is the module's frame alone; inside a
\* function there is the function's frame and one frame per open loop body
\* or conditional arm, each pushed fresh; the names bound are parameters
\* of this function, variables declared in the block the analysis is in or
\* in one around it, and variables of the loops around it.  So a read of a
\* name of another function, of a name declared in a then-arm from the
\* else-arm or after the conditional, or of a name of a loop after the loop
\* fails, and declaring such a name again succeeds.
C15_Balanced ==
    /\ [](/\ pc \in {"idle", "done"} => scopes = <<ModuleFrame>>
          /\ pc = "body" =>
                /\ scopes[1] = ModuleFrame
                /\ \A j, k \in 1..Len(scopes) : scopes[j].id = scopes[k].id => j = k
                /\ exc = NoErr =>
                    /\ Len(scopes) = 2 + OpenBlocks(tasks)
                    /\ VisibleNames \subseteq ParameterNames(fi) \cup DeclaredAround(fi, CurrentBlock)
          /\ \A i \in 1..Len(Fns) :
                (Attempted(i) /\ ScopeFunction(i) /\ ~(fi = i /\ outcome = "crashed")) =>
                    (Succeeded(i) <=> ~(ReadsOutOfScope(i) \/ FailsOtherwise(i))))
    /\ [][FreshFrame]_vars

\* C15 witness: f crashed in a loop header inside a then-arm, or failed in
\* an else-arm inside a loop body, and the namespace is the module's frame.
C15_Witness ==
    /\ ScopeFunction(1) /\ scopes = <<ModuleFrame>> /\ nextFrame >= 3
    /\ \/ pc = "done" /\ outcome = "crashed" /\ fi = 1
       \/ /\ pc = "done" /\ outcome = "raised"
          /\ Body(1).c = <<TermFor(<<TermIf(<<DeclareName("w")>>, <<BadAssign>>)>>)>>
          /\ FailedAt(1, "TypeMismatch", 279) /\ Succeeded(2)

(* Functions that call.  f calls the internal z, g and h and the external  *)
(* e: in a statement, nested in an argument, in the index of an assignment *)
(* target, inside a conditional and a loop, in a keyword default, before   *)
(* and after an ill-typed statement.  g calls h or nothing.                *)
DeclareFrom(value) == AnnAssignStmt(NameNode("y"), "uint256", <<value>>)
CalleeBodies ==
    {<<CallStmt("z")>>,
     <<DeclareFrom(SelfCall("g", <<SelfCall("h", <<>>)>>))>>,
     <<CallStmt("z"), DeclareFrom(SelfCall("g", <<SelfCall("e", <<>>)>>))>>,
     <<AssignStmt(SubscriptNode(SelfAttr("arr"), SelfCall("h", <<>>)), IntNode(1))>>,
     <<DeclareFrom(SelfCall("e", <<>>))>>,
     <<IfStmt(NameNode("c"), <<DeclareFrom(SelfCall("h", <<>>))>>, <<CallStmt("z")>>)>>,
     <<ForStmt(NameNode("i"), "uint256", RangeCall(<<IntNode(2)>>),
               <<AssignStmt(SelfAttr("n"), SelfCall("g", <<NameNode("i")>>))>>)>>,
     <<CallStmt("z"), BadAssign, DeclareFrom(SelfCall("h", <<>>))>>,
     <<BadAssign, CallStmt("z")>>}
CalleeDefaults == {<<>>, <<Kwarg("k", "uint256", SelfCall("h", <<>>))>>}
CalleeModules ==
    {Module(<<FunctionDef("f", TRUE, NONPAYABLE, <<Arg("c", "bool")>>, "none", body, kwargs),
              FunctionDef("g", TRUE, NONPAYABLE, <<Arg("v", "uint256")>>, "uint256",
                          <<ReturnStmt(<<inner>>)>>, <<>>),
              FunctionDef("h", TRUE, NONPAYABLE, <<>>, "uint256",
                          <<ReturnStmt(<<IntNode(1)>>)>>, <<>>),
              FunctionDef("z", TRUE, NONPAYABLE, <<>>, "none", <<PassStmt>>, <<>>),
              FunctionDef("e", FALSE, NONPAYABLE, <<>>, "uint256",
                          <<ReturnStmt(<<IntNode(1)>>)>>, <<>>)>>) :
        body \in CalleeBodies, kwargs \in CalleeDefaults,
        inner \in {NameNode("v"), SelfCall("h", <<>>)}}

SpecCalls == InitWith(CalleeModules \cup SmokeModules) /\ [][Next]_vars

\* the functions the text of function i calls through self, in its body
\* and its keyword defaults, and those of them that are internal
CalledInText(i) ==
    {NodeAt(Fns[i].node, q).c[1].s :
        q \in {r \in PathSet(Fns[i].node) :
                /\ NodeAt(Fns[i].node, r).k = "Call"
                /\ NodeAt(Fns[i].node, r).c[1].k = "Attribute"
                /\ NodeAt(Fns[i].node, r).c[1].c[1] = NameNode("self")}}
InternalNames == {Fns[j].name : j \in {k \in 1..Len(Fns) : Fns[k].internal}}

\* a step leaves the declarations and every other function's set alone
\* and only adds internal functions to the set of the function analysed
OwnSetGrows ==
    /\ module' = module
    /\ DOMAIN called' = DOMAIN called
    /\ \A j \in DOMAIN called :
        /\ called[j] \subseteq called'[j]
        /\ called'[j] \ called[j] \subseteq InternalNames
        /\ called'[j] # called[j] => j = fi /\ pc = "body"

\* C16: analysing f changes no descriptor but f's own called_functions,
\* which only grows.  No step changes the declarations or the set of a
\* function other than the one being analysed, no step removes a member,
\* every member is an internal function of the module that the text of the
\* function calls, and once the analysis of f has succeeded its set holds
\* every internal function called in its body or its keyword defaults.
C16_FrameEffect ==
    /\ [](\A i \in 1..Len(Fns) :
            /\ called[i] \subseteq InternalNames \cap CalledInText(i)
            /\ Succeeded(i) => CalledInText(i) \cap InternalNames \subseteq called[i])
    /\ [][OwnSetGrows]_vars

\* C16 witness: f called z in a statement, g with a call of the external e
\* as argument and h in a keyword default, and g called h; both succeeded.
C16_Witness ==
    /\ module \in CalleeModules /\ pc = "done" /\ pass = 1
    /\ Body(1).c = <<CallStmt("z"), DeclareFrom(SelfCall("g", <<SelfCall("e", <<>>)>>))>>
    /\ Succeeded(1) /\ Succeeded(2)
    /\ CalledInText(1) = {"z", "g", "e", "h"}
    /\ called[1] = {"z", "g", "h"} /\ called[2] = {"h"} /\ called[3] = {}

====
